---- MODULE Spec2Model ----
(***************************************************************************)
(* A model of the opportunity pipeline of the sandwich bot:                *)
(*   - MempoolObserver (core/MempoolObserver.js): the websocket message    *)
(*     handler, handlePendingTransaction and the processOpportunities loop *)
(*     that share processedTxs and pendingOpportunities;                   *)
(*   - SandwichExecutor (utils/SandwichExecutor.js): executeSandwich,      *)
(*     refreshNonce and trackTransaction sharing currentNonce;             *)
(*   - TokenManager (utils/TokenManager.js): the token and pair caches and *)
(*     isTokenBlacklisted;                                                 *)
(*   - SandwichOptimizer (utils/SandwichOptimizer.js) and the swap         *)
(*     arithmetic of FlashLoanSandwich.sol: the sizing of one opportunity; *)
(*   - TransactionDecoder.analyzePendingTransaction and the admission      *)
(*     decision of handlePendingTransaction, one transaction at a time.    *)
(* JavaScript runs one continuation at a time, so every action below is    *)
(* the code that runs between two awaits (a whole continuation).           *)
(* Times are milliseconds, as Date.now() gives them.                       *)
(***************************************************************************)
EXTENDS Integers, Sequences, FiniteSets, TLC

VARIABLES
    now,                  \* the wall clock, Date.now()
    isActive,             \* MempoolObserver.isActive
    wsOpen,               \* the websocket this.ws is open and subscribed
    startPc,              \* start(): "idle", "verify" (awaiting verifyContractState), "started"
    processedTxs,         \* MempoolObserver.processedTxs, a Set in insertion order
    pendingOpportunities, \* MempoolObserver.pendingOpportunities, a Map in insertion order
    handlers,             \* message handlers suspended at an await
    nextId,               \* the number of the next notification handled
    loopPc,               \* where processOpportunities is suspended
    cycleNow,             \* processOpportunities' local `now`
    it,                   \* the Map iterator's index into pendingOpportunities
    cur,                  \* the destructured entry [txHash, opp, detected] of the for-of body
    currentGasPrice,      \* processOpportunities' local currentGasPrice (gwei)
    invokedAt,            \* the time of the executeSandwich call in progress
    executed,             \* per victim hash, the executeSandwich calls made so far
    procActive,           \* OpportunityProcessor.isActive
    procPending,          \* OpportunityProcessor.pendingOpportunities
    processedOpportunities, \* OpportunityProcessor.processedOpportunities
    procPc,               \* where OpportunityProcessor.processOpportunities is suspended
    procNow,              \* its local `now`
    procIt,               \* its Map iterator's index
    procCur,              \* its destructured entry
    procGasPrice,         \* its local currentGasPrice (gwei)
    currentNonce,         \* SandwichExecutor.currentNonce
    lastNonceRefresh,     \* SandwichExecutor.lastNonceRefresh
    chainCount,           \* the chain's transaction count of the wallet (mined)
    calls,                \* the executeSandwich calls made on the executor
    assigned,             \* the nonces handed out, in the order of `currentNonce++`
    mempool,              \* [call, nonce] of the submitted, not yet mined transactions
    tokenCache,           \* TokenManager.tokenCache, the entry of one token
    pairCache,            \* TokenManager.pairCache, the entry of one pair
    lookups,              \* the getTokenInfo / getPairReserves calls and what became of their result
    blacklistedTokens,    \* TokenManager.blacklistedTokens
    checks,               \* the isTokenBlacklisted calls
    sizing,               \* one calculateOptimalSandwichParams call: its inputs and what it returned
    sandwich,             \* one _calculateSandwichResults call of the contract
    admission,            \* one handlePendingTransaction call given a front-run sizing
    analysis,             \* one analyzePendingTransaction call
    twice,                \* two analyzePendingTransaction calls on one payload
    contract,             \* the storage and balances of FlashLoanSandwich
    lastCall,             \* the last transaction sent to the contract and its outcome
    loops,                \* the processOpportunities invocations of a restarted observer
    reconnect,            \* attemptReconnect: reconnectAttempts and the calls in their sleep
    failedRun             \* the executions that failed since the last success

obsVars == <<isActive, wsOpen, startPc, processedTxs, pendingOpportunities, handlers,
             nextId, loopPc, cycleNow, it, cur, currentGasPrice, invokedAt, executed>>
procVars == <<procActive, procPending, processedOpportunities, procPc, procNow, procIt,
              procCur, procGasPrice>>
execVars == <<currentNonce, lastNonceRefresh, chainCount, calls, assigned, mempool>>
tmVars == <<tokenCache, pairCache, lookups, blacklistedTokens, checks>>
calcVars == <<sizing, sandwich, admission, analysis>>
chainVars == <<contract, lastCall>>
lifeVars == <<loops, reconnect, failedRun>>
extVars == <<twice, chainVars, lifeVars>>
vars == <<now, obsVars, procVars, execVars, tmVars, calcVars, extVars>>

----------------------------------------------------------------------------
(* Bounds of the model *)

MaxNotifications == 3   \* notifications that reach handlePendingTransaction
MaxTicks == 3           \* clock ticks of the observer's run
MaxCalls == 2           \* executeSandwich calls made on the executor
MaxExecTicks == 5       \* clock ticks of the executor's run
ProcessedLimit == 1     \* stands for the 10000 of processedTxs.size > 10000
ProcessedEvict == 1     \* stands for the 1000 entries deleted then
MaxLiveNotifications == 2 \* notifications of the run checked for liveness
MaxLookups == 2         \* getTokenInfo / getPairReserves calls
MaxCacheTicks == 7      \* clock ticks of the caches' run
MaxChecks == 2          \* isTokenBlacklisted calls
MaxStarts == 2          \* start() calls of a restarted observer that pass its isActive test
MaxReconnects == 1      \* attemptReconnect calls that go to sleep
MaxTransactions == 3    \* transactions sent to the contract

(* Program constants *)

OPPORTUNITY_TIMEOUT == 10000
MAX_GAS_PRICE == 100
nonceRefreshInterval == 30000
txTimeout == 120000
cacheExpirationTime == 600000
\* Date.now() - cached.timestamp < 30000 of getPairReserves
pairCacheMaxAge == 30000

\* this.currentNonce = null
Null == -1

\* the victim transaction hashes the feed announces
Hashes == {1, 2}
\* cur outside the body of the for-of loop
NoEntry == [txHash |-> 0, opp |-> 0, detected |-> 0]
TickStep == OPPORTUNITY_TIMEOUT \div 2
GasPrices == {MAX_GAS_PRICE, MAX_GAS_PRICE + 1}
\* opportunity.deadline, the deadline argument decoded from the victim's swap
\* (in ms here): one victim's is close, the other's beyond the run
VictimDeadline(h) == IF h = 1 THEN TickStep ELSE (MaxTicks + 1) * TickStep

----------------------------------------------------------------------------
(* Map and Set of JavaScript, both in insertion order *)

HasKey(m, h) == \E k \in 1..Len(m) : m[k].txHash = h

IndexOf(m, h) == CHOOSE k \in 1..Len(m) : m[k].txHash = h

\* Map.prototype.set: an existing key keeps its place and takes the new value
MapSet(m, e) ==
    IF HasKey(m, e.txHash)
    THEN [k \in 1..Len(m) |-> IF m[k].txHash = e.txHash THEN e ELSE m[k]]
    ELSE Append(m, e)

\* Map.prototype.delete
MapDelete(m, h) == SelectSeq(m, LAMBDA e : e.txHash # h)

\* the live iterator's index after delete(h): entries behind it move up
ItAfterDelete(m, i, h) ==
    IF HasKey(m, h) /\ IndexOf(m, h) <= i THEN i - 1 ELSE i

InSeq(s, x) == \E k \in 1..Len(s) : s[k] = x

\* processedTxs.add(h), then the size limit of the message handler
ProcessedAdd(s, h) ==
    LET t == IF InSeq(s, h) THEN s ELSE Append(s, h)
    IN  IF Len(t) > ProcessedLimit
        THEN SubSeq(t, IF ProcessedEvict < Len(t) THEN ProcessedEvict + 1 ELSE Len(t) + 1, Len(t))
        ELSE t

----------------------------------------------------------------------------
(* MempoolObserver: start, stop and the clock *)

\* The bot runs MempoolObserver (start.js); OpportunityProcessor is a second
\* implementation of the processing loop with its own map. The two share no
\* state, so a run of the model uses one of them.
ObserverUnused == ~isActive /\ startPc = "idle"

ProcUnused == procPc = "idle" /\ procPending = <<>>

\* start() up to its await of verifyContractState
Start ==
    /\ ~isActive /\ startPc = "idle"
    /\ ProcUnused
    /\ isActive' = TRUE
    /\ startPc' = "verify"
    /\ UNCHANGED <<calcVars, extVars, now, wsOpen, processedTxs, pendingOpportunities, handlers, nextId,
                   loopPc, cycleNow, it, cur, currentGasPrice, invokedAt, executed, procVars, execVars, tmVars>>

\* stop(): isActive = false and ws.terminate()
Stop ==
    /\ isActive
    /\ isActive' = FALSE
    /\ wsOpen' = FALSE
    /\ UNCHANGED <<calcVars, extVars, now, startPc, processedTxs, pendingOpportunities, handlers, nextId,
                   loopPc, cycleNow, it, cur, currentGasPrice, invokedAt, executed, procVars, execVars, tmVars>>

\* The clock advances by TickStep. The sleeps of the processing loops (100 ms,
\* 500 ms and 1000 ms) are shorter than that, so a loop is awake before the tick.
Tick ==
    /\ now < MaxTicks * TickStep
    /\ loopPc \notin {"sleep", "sleepErr"}
    /\ procPc \notin {"sleep", "sleepErr", "sleepGas"}
    /\ now' = now + TickStep
    /\ UNCHANGED <<calcVars, extVars, obsVars, procVars, execVars, tmVars>>

----------------------------------------------------------------------------
(* MempoolObserver: the message handler and handlePendingTransaction *)

\* ws.on('message'): a pending-transaction notification of hash h. A hash in
\* processedTxs is skipped; any other starts handlePendingTransaction, which
\* suspends at provider.getTransaction.
Notify(h) ==
    /\ wsOpen
    /\ nextId <= MaxNotifications
    /\ IF InSeq(processedTxs, h)
       THEN UNCHANGED <<calcVars, extVars, handlers, nextId>>
       ELSE /\ handlers' = handlers \cup {[id |-> nextId, hash |-> h]}
            /\ nextId' = nextId + 1
    /\ UNCHANGED <<calcVars, extVars, now, isActive, wsOpen, startPc, processedTxs, pendingOpportunities,
                   loopPc, cycleNow, it, cur, currentGasPrice, invokedAt, executed, procVars, execVars, tmVars>>

\* the entry handlePendingTransaction stores for handler hd
NewEntry(hd) == [txHash |-> hd.hash, opp |-> hd.id, detected |-> now]

\* pendingOpportunities.set(txHash, {opportunity, sandwichParams, detected})
Admit(m, hd) == MapSet(m, NewEntry(hd))

\* handlePendingTransaction got the transaction, an opportunity from
\* analyzePendingTransaction and profitable parameters from
\* calculateOptimalSandwichParams (three awaits with no shared state read or
\* written between them): the opportunity enters the map, the handler returns
\* and the message handler adds the hash to processedTxs
HandlerAdmit(hd) ==
    /\ hd \in handlers
    /\ pendingOpportunities' = Admit(pendingOpportunities, hd)
    /\ handlers' = handlers \ {hd}
    /\ processedTxs' = ProcessedAdd(processedTxs, hd.hash)
    /\ UNCHANGED <<calcVars, extVars, now, isActive, wsOpen, startPc, nextId,
                   loopPc, cycleNow, it, cur, currentGasPrice, invokedAt, executed, procVars, execVars, tmVars>>

\* any early return or caught error of handlePendingTransaction (no transaction,
\* gas price too high, not an opportunity, not profitable, an RPC error): the
\* message handler still adds the hash to processedTxs
HandlerReject(hd) ==
    /\ hd \in handlers
    /\ handlers' = handlers \ {hd}
    /\ processedTxs' = ProcessedAdd(processedTxs, hd.hash)
    /\ UNCHANGED <<calcVars, extVars, now, isActive, wsOpen, startPc, pendingOpportunities, nextId,
                   loopPc, cycleNow, it, cur, currentGasPrice, invokedAt, executed, procVars, execVars, tmVars>>

----------------------------------------------------------------------------
(* MempoolObserver: processOpportunities *)

\* entries that never expire
Expired_Never(t, e) == FALSE

\* now - detected > config.OPPORTUNITY_TIMEOUT
Expired(t, e) == t - e.detected > OPPORTUNITY_TIMEOUT

\* The for-of loop from iterator index i up to its next await: expired entries
\* are deleted, the first live one is destructured and the loop suspends in
\* provider.getGasPrice; at the end of the map it suspends in sleep.
RECURSIVE Advance(_, _, _)
Advance(m, i, t) ==
    IF i >= Len(m)
    THEN [map |-> m, it |-> 0, cur |-> NoEntry, pc |-> "sleep"]
    ELSE IF Expired(t, m[i + 1])
         THEN Advance(MapDelete(m, m[i + 1].txHash), i, t)
         ELSE [map |-> m, it |-> i + 1, cur |-> m[i + 1], pc |-> "gas"]

LoopGoes(r) ==
    /\ pendingOpportunities' = r.map
    /\ it' = r.it
    /\ cur' = r.cur
    /\ loopPc' = r.pc

\* while (this.isActive) { const now = Date.now(); for (...) ...
LoopCycle(t) ==
    IF isActive
    THEN cycleNow' = t /\ LoopGoes(Advance(pendingOpportunities, 0, t))
    ELSE /\ cycleNow' = 0 /\ loopPc' = "stopped"
         /\ UNCHANGED <<calcVars, extVars, pendingOpportunities, it, cur>>

\* start() resumes: subscribeToMempool(), then processOpportunities() runs to
\* its first await
StartResume ==
    /\ startPc = "verify"
    /\ startPc' = "started"
    /\ wsOpen' = TRUE
    /\ LoopCycle(now)
    /\ UNCHANGED <<calcVars, extVars, now, isActive, processedTxs, handlers, nextId,
                   currentGasPrice, invokedAt, executed, procVars, execVars, tmVars>>

\* sleep(PROCESSING_INTERVAL) or sleep(1000) is over: the next cycle
LoopWake ==
    /\ loopPc \in {"sleep", "sleepErr"}
    /\ LoopCycle(now)
    /\ UNCHANGED <<calcVars, extVars, now, isActive, wsOpen, startPc, processedTxs, handlers, nextId,
                   currentGasPrice, invokedAt, executed, procVars, execVars, tmVars>>

\* provider.getGasPrice() settles with price g
LoopGasPrice(g) ==
    /\ loopPc = "gas"
    /\ loopPc' = "gasResume"
    /\ currentGasPrice' = g
    /\ UNCHANGED <<calcVars, extVars, now, isActive, wsOpen, startPc, processedTxs, pendingOpportunities, handlers,
                   nextId, cycleNow, it, cur, invokedAt, executed, procVars, execVars, tmVars>>

\* a catch that leaves the while loop
CatchGoes_Exit == "stopped"

\* catch (error) { logger.error(...); await sleep(1000); } inside the while loop
CatchGoes == "sleepErr"

\* provider.getGasPrice() rejects: the catch of the cycle, then sleep(1000)
LoopGasError ==
    /\ loopPc = "gas"
    /\ loopPc' = CatchGoes
    /\ it' = 0
    /\ cur' = NoEntry
    /\ UNCHANGED <<calcVars, extVars, now, isActive, wsOpen, startPc, processedTxs, pendingOpportunities, handlers,
                   nextId, cycleNow, currentGasPrice, invokedAt, executed, procVars, execVars, tmVars>>

\* a limit that lets a price just above MAX_GAS_PRICE through
GasTooHigh_Lax(g) == g > MAX_GAS_PRICE + 1

\* currentGasPrice.gt(MAX_GAS_PRICE)
GasTooHigh(g) == g > MAX_GAS_PRICE

\* the loop resumes with the gas price: `continue` when it is too high,
\* otherwise executor.executeSandwich(opportunity, sandwichParams) is called
LoopAfterGas ==
    /\ loopPc = "gasResume"
    /\ IF GasTooHigh(currentGasPrice)
       THEN /\ LoopGoes(Advance(pendingOpportunities, it, cycleNow))
            /\ UNCHANGED <<calcVars, extVars, invokedAt, executed>>
       ELSE /\ loopPc' = "exec"
            /\ invokedAt' = now
            /\ executed' = [executed EXCEPT ![cur.txHash] = @ + 1]
            /\ UNCHANGED <<calcVars, extVars, pendingOpportunities, it, cur>>
    /\ currentGasPrice' = 0
    /\ UNCHANGED <<calcVars, extVars, now, isActive, wsOpen, startPc, processedTxs, handlers, nextId,
                   cycleNow, procVars, execVars, tmVars>>

\* executeSandwich returns (it never throws): pendingOpportunities.delete(txHash),
\* the statistics, and on to the next entry
LoopExecReturn ==
    /\ loopPc = "exec"
    /\ LoopGoes(Advance(MapDelete(pendingOpportunities, cur.txHash),
                        ItAfterDelete(pendingOpportunities, it, cur.txHash), cycleNow))
    /\ invokedAt' = 0
    /\ UNCHANGED <<calcVars, extVars, now, isActive, wsOpen, startPc, processedTxs, handlers, nextId,
                   cycleNow, currentGasPrice, executed, procVars, execVars, tmVars>>

\* executeSandwich returns and, after pendingOpportunities.delete(txHash), the
\* bookkeeping of the result throws (the statistics or profitTracker.recordProfit):
\* the catch of the cycle, then sleep(1000)
LoopExecThrows ==
    /\ loopPc = "exec"
    /\ pendingOpportunities' = MapDelete(pendingOpportunities, cur.txHash)
    /\ loopPc' = CatchGoes
    /\ it' = 0
    /\ cur' = NoEntry
    /\ invokedAt' = 0
    /\ UNCHANGED <<calcVars, extVars, now, isActive, wsOpen, startPc, processedTxs, handlers, nextId,
                   cycleNow, currentGasPrice, executed, procVars, execVars, tmVars>>

----------------------------------------------------------------------------
(* OpportunityProcessor: addOpportunity and processOpportunities *)

\* addOpportunity(txHash, opportunity): refused for a processed hash, else
\* pendingOpportunities.set(txHash, {opportunity, detected: Date.now()})
AddOpportunity(h) ==
    /\ ObserverUnused
    /\ nextId <= MaxNotifications
    /\ IF h \in processedOpportunities
       THEN UNCHANGED <<calcVars, extVars, procPending, nextId>>
       ELSE /\ procPending' = MapSet(procPending, [txHash |-> h, opp |-> nextId, detected |-> now])
            /\ nextId' = nextId + 1
    /\ UNCHANGED <<calcVars, extVars, now, isActive, wsOpen, startPc, processedTxs, pendingOpportunities, handlers,
                   loopPc, cycleNow, it, cur, currentGasPrice, invokedAt, executed,
                   procActive, processedOpportunities, procPc, procNow, procIt, procCur,
                   procGasPrice, execVars, tmVars>>

\* while (this.isActive) { const now = Date.now(); await provider.getGasPrice() ...
ProcCycle(t) ==
    IF procActive
    THEN procNow' = t /\ procPc' = "gas"
    ELSE procNow' = 0 /\ procPc' = "stopped"

\* start(): processOpportunities() runs to its first await
ProcStart ==
    /\ ObserverUnused
    /\ ~procActive /\ procPc = "idle"
    /\ procActive' = TRUE
    /\ procNow' = now /\ procPc' = "gas"
    /\ UNCHANGED <<calcVars, extVars, now, obsVars, procPending, processedOpportunities, procIt, procCur,
                   procGasPrice, execVars, tmVars>>

\* stop()
ProcStop ==
    /\ procActive
    /\ procActive' = FALSE
    /\ UNCHANGED <<calcVars, extVars, now, obsVars, procPending, processedOpportunities, procPc, procNow, procIt,
                   procCur, procGasPrice, execVars, tmVars>>

\* a sleep is over: the next cycle
ProcWake ==
    /\ procPc \in {"sleep", "sleepErr", "sleepGas"}
    /\ ProcCycle(now)
    /\ UNCHANGED <<calcVars, extVars, now, obsVars, procActive, procPending, processedOpportunities, procIt,
                   procCur, procGasPrice, execVars, tmVars>>

\* provider.getGasPrice() settles with price g
ProcGasPrice(g) ==
    /\ procPc = "gas"
    /\ procPc' = "gasResume"
    /\ procGasPrice' = g
    /\ UNCHANGED <<calcVars, extVars, now, obsVars, procActive, procPending, processedOpportunities, procNow,
                   procIt, procCur, execVars, tmVars>>

\* provider.getGasPrice() rejects: the outer catch, then sleep(1000)
ProcGasError ==
    /\ procPc = "gas"
    /\ procPc' = "sleepErr"
    /\ UNCHANGED <<calcVars, extVars, now, obsVars, procActive, procPending, processedOpportunities, procNow,
                   procIt, procCur, procGasPrice, execVars, tmVars>>

\* The for-of loop from iterator index i up to its next await: expired entries
\* are deleted and marked processed, the first live one is destructured and
\* the loop suspends in optimizer.calculateOptimalSandwichParams
RECURSIVE ProcAdvance(_, _, _, _)
ProcAdvance(m, done, i, t) ==
    IF i >= Len(m)
    THEN [map |-> m, done |-> done, it |-> 0, cur |-> NoEntry, pc |-> "sleep"]
    ELSE IF Expired(t, m[i + 1])
         THEN ProcAdvance(MapDelete(m, m[i + 1].txHash), done \cup {m[i + 1].txHash}, i, t)
         ELSE [map |-> m, done |-> done, it |-> i + 1, cur |-> m[i + 1], pc |-> "calc"]

ProcGoes(r) ==
    /\ procPending' = r.map
    /\ processedOpportunities' = r.done
    /\ procIt' = r.it
    /\ procCur' = r.cur
    /\ procPc' = r.pc

\* currentGasPrice.gt(maxGasPrice)
ProcGasTooHigh(g) == g > MAX_GAS_PRICE

\* the loop resumes with the gas price: too high, it sleeps five intervals and
\* starts the cycle over; otherwise it goes through the map
ProcAfterGas ==
    /\ procPc = "gasResume"
    /\ IF ProcGasTooHigh(procGasPrice)
       THEN /\ procPc' = "sleepGas"
            /\ UNCHANGED <<calcVars, extVars, procPending, processedOpportunities, procIt, procCur>>
       ELSE ProcGoes(ProcAdvance(procPending, processedOpportunities, 0, procNow))
    /\ procGasPrice' = 0
    /\ UNCHANGED <<calcVars, extVars, now, obsVars, procActive, procNow, execVars, tmVars>>

\* pendingOpportunities.delete(txHash); processedOpportunities.add(txHash);
\* then on to the next entry
ProcRetire ==
    ProcGoes(ProcAdvance(MapDelete(procPending, procCur.txHash),
                         processedOpportunities \cup {procCur.txHash},
                         ItAfterDelete(procPending, procIt, procCur.txHash), procNow))

\* calculateOptimalSandwichParams returns profitable parameters:
\* executor.executeSandwich(opportunity, sandwichParams) is called
ProcCalculated ==
    /\ procPc = "calc"
    /\ procPc' = "exec"
    /\ executed' = [executed EXCEPT ![procCur.txHash] = @ + 1]
    /\ UNCHANGED <<calcVars, extVars, now, isActive, wsOpen, startPc, processedTxs, pendingOpportunities, handlers,
                   nextId, loopPc, cycleNow, it, cur, currentGasPrice, invokedAt,
                   procActive, procPending, processedOpportunities, procNow, procIt, procCur,
                   procGasPrice, execVars, tmVars>>

\* calculateOptimalSandwichParams returns not profitable, or throws into the
\* catch of the loop body: the entry is retired either way
ProcDropped ==
    /\ procPc = "calc"
    /\ ProcRetire
    /\ UNCHANGED <<calcVars, extVars, now, obsVars, procActive, procNow, procGasPrice, execVars, tmVars>>

\* executeSandwich returns: the entry is retired, then the statistics
ProcExecReturn ==
    /\ procPc = "exec"
    /\ ProcRetire
    /\ UNCHANGED <<calcVars, extVars, now, obsVars, procActive, procNow, procGasPrice, execVars, tmVars>>

\* new OpportunityProcessor(profitTracker)
ProcInit ==
    /\ procActive = FALSE
    /\ procPending = <<>>
    /\ processedOpportunities = {}
    /\ procPc = "idle"
    /\ procNow = 0
    /\ procIt = 0
    /\ procCur = NoEntry
    /\ procGasPrice = 0

----------------------------------------------------------------------------
(* TokenManager: tokenCache, pairCache and the lookups that use them *)

LookupIds == 1..MaxLookups

Kinds == {"token", "pair"}

\* an empty slot of a cache Map
NoCached == [present |-> FALSE, timestamp |-> 0]

NoLookup == [pc |-> "idle", kind |-> "none", info |-> 0, detected |-> 0, calcAt |-> Null]

CacheOf(kind) == IF kind = "token" THEN tokenCache ELSE pairCache

\* the age below which an entry is returned
MaxAge(kind) == IF kind = "token" THEN cacheExpirationTime ELSE pairCacheMaxAge

\* cache.has(cacheKey) && Date.now() - cached.timestamp < the maximum age
CacheHit(e, t, kind) == e.present /\ t - e.timestamp < MaxAge(kind)

\* getTokenInfo(tokenAddress) or getPairReserves(pairAddress, ...) is called:
\* a fresh entry is returned (info: when its data were read from the chain),
\* otherwise the call awaits the chain. The pair info returned becomes the
\* pairInfo of an opportunity, detected now
CacheLookup(l, kind) ==
    /\ lookups[l].pc = "idle"
    /\ lookups' = [lookups EXCEPT ![l] =
                      IF CacheHit(CacheOf(kind), now, kind)
                      THEN [@ EXCEPT !.pc = "have", !.kind = kind,
                                     !.info = CacheOf(kind).timestamp, !.detected = now]
                      ELSE [@ EXCEPT !.pc = "fetch", !.kind = kind]]
    /\ UNCHANGED <<calcVars, extVars, now, obsVars, procVars, execVars, tokenCache, pairCache,
                   blacklistedTokens, checks>>

\* The chain answers: the result is cached with timestamp: Date.now() and
\* returned. An error is caught: getPairReserves returns null, getTokenInfo
\* default values, and nothing is cached
CacheFetched(l, ok) ==
    /\ lookups[l].pc = "fetch"
    /\ IF ok
       THEN /\ lookups' = [lookups EXCEPT ![l].pc = "have", ![l].info = now, ![l].detected = now]
            /\ tokenCache' = IF lookups[l].kind = "token"
                             THEN [present |-> TRUE, timestamp |-> now] ELSE tokenCache
            /\ pairCache' = IF lookups[l].kind = "pair"
                            THEN [present |-> TRUE, timestamp |-> now] ELSE pairCache
       ELSE /\ lookups' = [lookups EXCEPT ![l].pc = "failed"]
            /\ UNCHANGED <<calcVars, extVars, tokenCache, pairCache>>
    /\ UNCHANGED <<calcVars, extVars, now, obsVars, procVars, execVars, blacklistedTokens, checks>>

\* calculateOptimalSandwichParams(opportunity) takes the reserves from
\* opportunity.pairInfo: in handlePendingTransaction right after detection, in
\* OpportunityProcessor's loop in every cycle in which the entry has not expired
Calculate(l) ==
    /\ lookups[l].pc = "have" /\ lookups[l].kind = "pair"
    /\ ~(now - lookups[l].detected > OPPORTUNITY_TIMEOUT)
    /\ lookups[l].calcAt # now
    /\ lookups' = [lookups EXCEPT ![l].calcAt = now]
    /\ UNCHANGED <<calcVars, extVars, now, obsVars, procVars, execVars, tokenCache, pairCache,
                   blacklistedTokens, checks>>

CacheTick ==
    /\ now < MaxCacheTicks * TickStep
    /\ now' = now + TickStep
    /\ UNCHANGED <<calcVars, extVars, obsVars, procVars, execVars, tmVars>>

CacheNext ==
    \/ \E l \in LookupIds, kind \in Kinds : CacheLookup(l, kind)
    \/ \E l \in LookupIds, ok \in BOOLEAN : CacheFetched(l, ok)
    \/ \E l \in LookupIds : Calculate(l)
    \/ CacheTick

----------------------------------------------------------------------------
(* TokenManager: isTokenBlacklisted and detectTokenFees *)

Tokens == {1, 2, 3, 4}

\* config.BLACKLISTED_TOKENS
StaticDenyList == {1}

\* the signatures of tokenDetectorSigs, in the order of Object.entries
Selectors == {"transfer", "beforeTokenTransfer", "rebase"}

\* what provider.getCode gives: a rejection, or bytecode with some selectors
CodeOutcomes == {[error |-> TRUE, code |-> {}]} \cup {[error |-> FALSE, code |-> c] : c \in SUBSET Selectors}

CheckIds == 1..MaxChecks

NoCheck == [pc |-> "idle", token |-> 0, result |-> FALSE, heuristicError |-> FALSE]

\* detectTokenFees after getCode settled. The loop meets transfer first: its
\* entry has hasFee, which is called with the address instead of logs and
\* throws (a string has no filter); the function's own catch turns that, and a
\* rejected getCode, into false. The two other entries have isRebase
DetectTokenFees(o) ==
    IF o.error THEN [hasFees |-> FALSE, threw |-> TRUE]
    ELSE IF "transfer" \in o.code THEN [hasFees |-> FALSE, threw |-> TRUE]
    ELSE IF o.code # {} THEN [hasFees |-> TRUE, threw |-> FALSE]
    ELSE [hasFees |-> FALSE, threw |-> FALSE]

\* isTokenBlacklisted(tokenAddress) up to its await of detectTokenFees
IsTokenBlacklisted(k, t) ==
    /\ checks[k].pc = "idle"
    /\ checks' = [checks EXCEPT ![k] =
                     IF t \in blacklistedTokens
                     THEN [@ EXCEPT !.pc = "done", !.token = t, !.result = TRUE]
                     ELSE [@ EXCEPT !.pc = "getCode", !.token = t]]
    /\ UNCHANGED <<calcVars, extVars, now, obsVars, procVars, execVars, tokenCache, pairCache, lookups,
                   blacklistedTokens>>

\* provider.getCode settles and isTokenBlacklisted resumes with what
\* detectTokenFees returned
CheckResumes(k, o) ==
    /\ checks[k].pc = "getCode"
    /\ LET r == DetectTokenFees(o)
       IN  /\ checks' = [checks EXCEPT ![k].pc = "done", ![k].result = r.hasFees,
                                       ![k].heuristicError = r.threw]
           /\ blacklistedTokens' = IF r.hasFees
                                   THEN blacklistedTokens \cup {checks[k].token}
                                   ELSE blacklistedTokens
    /\ UNCHANGED <<calcVars, extVars, now, obsVars, procVars, execVars, tokenCache, pairCache, lookups>>

BlacklistNext ==
    \/ \E k \in CheckIds, t \in Tokens : IsTokenBlacklisted(k, t)
    \/ \E k \in CheckIds, o \in CodeOutcomes : CheckResumes(k, o)

\* new TokenManager(provider)
TmInit ==
    /\ tokenCache = NoCached
    /\ pairCache = NoCached
    /\ lookups = [l \in LookupIds |-> NoLookup]
    /\ blacklistedTokens = StaticDenyList
    /\ checks = [k \in CheckIds |-> NoCheck]

(***************************************************************************)
(* SandwichOptimizer (utils/SandwichOptimizer.js).                         *)
(* calculateOptimalFrontRunAmount turns its BigNumber arguments into the   *)
(* decimal strings formatEther gives and computes with JavaScript numbers. *)
(* Below a number is an integer count of hundredths of a token; reserves   *)
(* are whole tokens, for which formatEther gives "X.0".                    *)
(***************************************************************************)
Scale == 100

\* fee: 997 of calculateOptimalSandwichParams; feeMultiplier = fee / 1000
FEE == 997

FEE_DIVISOR == 1000

Min(a, b) == IF a < b THEN a ELSE b

Max(a, b) == IF a > b THEN a ELSE b

\* n * feeMultiplier
TimesFee(n) == (n * FEE) \div FEE_DIVISOR

RECURSIVE SqrtFrom(_, _)
SqrtFrom(n, r) ==
    LET s == (r + n \div r) \div 2
    IN  IF s >= r THEN r ELSE SqrtFrom(n, s)

\* Math.sqrt of a number that is not negative
Sqrt(n) == IF n = 0 THEN 0 ELSE SqrtFrom(n, n)

\* sqrtTerm = Math.sqrt(x * v * feeMultiplier)
SqrtTerm(x, v) == Sqrt(((x * v) \div FEE_DIVISOR) * FEE)

\* optimalFrontRunDecimal = (sqrtTerm - x) / feeMultiplier, before Math.max
OptimalFrontRunDecimal(x, v) == ((SqrtTerm(x, v) - x) * FEE_DIVISOR) \div FEE

\* the clamp without its lower end
CappedOptimalAmount_NoFloor(opt, v) == Min(opt, (v * 3) \div 10)

\* Math.min(Math.max(0, optimalFrontRunDecimal), v * 0.3)
CappedOptimalAmount(opt, v) == Min(Max(0, opt), (v * 3) \div 10)

RECURSIVE FirstDigit(_)
FirstDigit(n) == IF n < 10 THEN n ELSE FirstDigit(n \div 10)

\* `x + cappedOptimalAmount * feeMultiplier` has the string x on its left, so
\* it is the string x followed by the digits of the number.  The division
\* that follows reads that string as a number: "X.0" followed by a run of
\* digits is one, "X.0" followed by a number with a point or a sign is NaN.
ConcatIsNumber(n) == n >= 0 /\ n % Scale = 0

\* the number "X.0" followed by the digits of the whole number n reads as,
\* to two places
ConcatValue(x, n) == x + FirstDigit(n \div Scale)

\* (reserveOut * in * feeMultiplier) / (reserveIn + in * feeMultiplier)
HopOut(reserveIn, reserveOut, in) ==
    (reserveOut * TimesFee(in)) \div (reserveIn + TimesFee(in))

\* lines 136-157: the three trades for a front-run of a, the first division
\* having the denominator denom
Simulate(x, y, v, a, denom) ==
    LET frontRunOutput == (y * TimesFee(a)) \div denom
        newX1 == x + TimesFee(a)
        newY1 == y - frontRunOutput
        victimOutput == HopOut(newX1, newY1, v)
        newX2 == newX1 + TimesFee(v)
        newY2 == newY1 - victimOutput
        backRunOutput == HopOut(newY2, newX2, frontRunOutput)
    IN  [nan |-> FALSE,
         frontRunOutput |-> frontRunOutput, newX1 |-> newX1, newY1 |-> newY1,
         victimOutput |-> victimOutput, newX2 |-> newX2, newY2 |-> newY2,
         backRunOutput |-> backRunOutput, profitDecimal |-> backRunOutput - a]

\* every number of lines 136-157 when the first denominator is NaN
NaNHops ==
    [nan |-> TRUE, frontRunOutput |-> 0, newX1 |-> 0, newY1 |-> 0, victimOutput |-> 0,
     newX2 |-> 0, newY2 |-> 0, backRunOutput |-> 0, profitDecimal |-> 0]

\* confidence = Math.max(0, Math.min(1, 1 - 2 * cappedOptimalAmount / x)), in thousandths
PerMille == 1000

Confidence(a, x) == Max(0, Min(PerMille, PerMille - (2 * PerMille * a) \div x))

\* calculateOptimalFrontRunAmount({reserveIn: x, reserveOut: y, victimAmount: v, fee: 997}).
\* With a NaN denominator every later number is NaN and parseEther("NaN") throws.
CalculateOptimalFrontRunAmount(x, y, v) ==
    LET opt == OptimalFrontRunDecimal(x, v)
        capped == CappedOptimalAmount(opt, v)
        n == TimesFee(capped)
        isNumber == ConcatIsNumber(n)
        sim == IF isNumber THEN Simulate(x, y, v, capped, ConcatValue(x, n)) ELSE NaNHops
    IN  [unconstrained |-> opt,
         capped |-> capped,
         threw |-> ~isNumber,
         hops |-> sim,
         optimalFrontRunAmount |-> capped,
         optimalBackRunAmount |-> sim.frontRunOutput,
         expectedProfit |-> sim.profitDecimal,
         confidence |-> Confidence(capped, x)]


\* Money of calculateOptimalSandwichParams is counted in units of 0.0001
\* ether: a hundredth of a token is 100 of them, a gwei of gas price times
\* 100000 units of gas is one of them.
UnitsPerHundredth == 100

GasPerUnit == 100000

BIPS_DIVISOR == 10000

AAVE_FEE_BIPS == 9

\* GAS_BUFFER = 1.2, in tenths
GAS_BUFFER == 12

\* estimatedGasUsed
ESTIMATED_GAS == 600000

\* config.MIN_PROFIT_THRESHOLD = 0.005 ether
MIN_PROFIT_THRESHOLD == 50

\* the gas price getNetworkConditions gives when the provider fails, in gwei
DEFAULT_GAS_PRICE == 50

\* getNetworkConditions().gasPrice: it catches the provider's error itself
NetworkGasPrice(networkGas, networkFails) ==
    IF networkFails THEN DEFAULT_GAS_PRICE ELSE networkGas

\* calculateOptimalGasPrice(victimGasPrice, networkConditions)
CalculateOptimalGasPrice(victimGas, networkGas) ==
    Max((victimGas * 115) \div 100, (networkGas * 110) \div 100)

\* finalGasPrice: the cap of lines 72-73
FinalGasPrice(victimGas, networkGas) ==
    Min(CalculateOptimalGasPrice(victimGas, networkGas), MAX_GAS_PRICE)

\* flashLoanAmount = optimalFrontRunAmount.mul(12).div(10)
FlashLoanAmount(frontRunAmount) == (frontRunAmount * 12) \div 10

\* totalCost = gasCost.add(flashLoanFee)
TotalCost(frontRunAmount, networkGas) ==
    (networkGas * ESTIMATED_GAS) \div GasPerUnit
    + (FlashLoanAmount(frontRunAmount) * UnitsPerHundredth * AAVE_FEE_BIPS) \div BIPS_DIVISOR

\* netProfit = result.expectedProfit.sub(totalCost)
NetProfit(fr, networkGas) ==
    fr.expectedProfit * UnitsPerHundredth - TotalCost(fr.optimalFrontRunAmount, networkGas)

Profitable_Always(netProfit) == TRUE

\* profitable = netProfit.gt(parseEther(MIN_PROFIT_THRESHOLD))
Profitable(netProfit) == netProfit > MIN_PROFIT_THRESHOLD

CatchResult_Profitable ==
    [threw |-> TRUE, profitable |-> TRUE, confidence |-> 0, flashLoanAmount |-> 0,
     frontRunAmount |-> 0, expectedProfit |-> 0, netProfit |-> 0, gasPrice |-> 0,
     gasLimit |-> 0]

\* the catch of calculateOptimalSandwichParams: {profitable: false, confidence: 0}
CatchResult ==
    [threw |-> TRUE, profitable |-> FALSE, confidence |-> 0, flashLoanAmount |-> 0,
     frontRunAmount |-> 0, expectedProfit |-> 0, netProfit |-> 0, gasPrice |-> 0,
     gasLimit |-> 0]

\* calculateOptimalSandwichParams from the result fr of calculateOptimalFrontRunAmount on.
\* The return statement multiplies a BigNumber by GAS_BUFFER = 1.2; whether
\* BigNumber.mul takes an operand with a fraction is the library's business
\* and not decided by these sources, so bufferRejected says which it was.
SandwichParams(fr, victimGas, networkGas, bufferRejected) ==
    IF fr.threw \/ bufferRejected
    THEN CatchResult
    ELSE [threw |-> FALSE,
          profitable |-> Profitable(NetProfit(fr, networkGas)),
          confidence |-> fr.confidence,
          flashLoanAmount |-> FlashLoanAmount(fr.optimalFrontRunAmount),
          frontRunAmount |-> fr.optimalFrontRunAmount,
          expectedProfit |-> fr.expectedProfit,
          netProfit |-> NetProfit(fr, networkGas),
          gasPrice |-> FinalGasPrice(victimGas, networkGas),
          gasLimit |-> (ESTIMATED_GAS * GAS_BUFFER) \div (10 * 10)]

\* pools and victim amounts of the sizing runs, in whole tokens
ReserveUnits == {1, 100, 1000}

VictimUnits == {4, 10, 50, 200}

\* gas prices of the victim and of the network, in gwei
VictimGasPrices == {20, 100}

NetworkGasPrices == {50, 100}

NoResult == [unconstrained |-> 0, capped |-> 0, threw |-> FALSE,
             hops |-> Simulate(Scale, Scale, 0, 0, Scale),
             optimalFrontRunAmount |-> 0, optimalBackRunAmount |-> 0,
             expectedProfit |-> 0, confidence |-> 0]

\* an opportunity handed to calculateOptimalSandwichParams
SizingInputs ==
    [pc : {"input"}, x : {u * Scale : u \in ReserveUnits}, y : {u * Scale : u \in ReserveUnits},
     v : {u * Scale : u \in VictimUnits}, victimGas : VictimGasPrices,
     networkGas : NetworkGasPrices, networkFails : BOOLEAN, bufferRejected : BOOLEAN,
     result : {NoResult}, params : {CatchResult}]

\* no opportunity has been handed over
NoSizing == [pc |-> "none"]

\* calculateOptimalSandwichParams(opportunity)
CalculateOptimalSandwichParams ==
    /\ sizing.pc = "input"
    /\ LET fr == CalculateOptimalFrontRunAmount(sizing.x, sizing.y, sizing.v)
           gas == NetworkGasPrice(sizing.networkGas, sizing.networkFails)
       IN  sizing' = [sizing EXCEPT
                         !.pc = "sized",
                         !.result = fr,
                         !.params = SandwichParams(fr, sizing.victimGas, gas,
                                                   sizing.bufferRejected)]
    /\ UNCHANGED <<extVars, now, obsVars, procVars, execVars, tmVars, sandwich, admission, analysis>>

(***************************************************************************)
(* FlashLoanSandwich.sol: getAmountOut and _calculateSandwichResults, in   *)
(* uint256 arithmetic (amounts in whole tokens here).                      *)
(***************************************************************************)
\* getAmountOut(amountIn, reserveIn, reserveOut); its two require statements revert
GetAmountOut(amountIn, reserveIn, reserveOut) ==
    IF amountIn <= 0 \/ reserveIn <= 0 \/ reserveOut <= 0
    THEN [reverted |-> TRUE, amountOut |-> 0]
    ELSE [reverted |-> FALSE,
          amountOut |-> (amountIn * FEE * reserveOut)
                        \div (reserveIn * FEE_DIVISOR + amountIn * FEE)]

\* _calculateSandwichResults(reserveA, reserveB, frontRunAmount, victimAmount, backRunAmount)
CalculateSandwichResults(reserveA, reserveB, frontRunAmount, victimAmount, backRunAmount) ==
    LET hop1 == GetAmountOut(frontRunAmount, reserveA, reserveB)
        newReserveA1 == reserveA + frontRunAmount
        newReserveB1 == reserveB - hop1.amountOut
        hop2 == GetAmountOut(victimAmount, newReserveA1, newReserveB1)
        newReserveA2 == newReserveA1 + victimAmount
        newReserveB2 == newReserveB1 - hop2.amountOut
        actualBackRunAmount == Min(hop1.amountOut, backRunAmount)
        hop3 == GetAmountOut(actualBackRunAmount, newReserveB2, newReserveA2)
    IN  [pc |-> "done",
         reserveA |-> reserveA, reserveB |-> reserveB, frontRunAmount |-> frontRunAmount,
         victimAmount |-> victimAmount,
         reverted |-> hop1.reverted \/ hop2.reverted \/ hop3.reverted,
         amountOut1 |-> hop1.amountOut,
         newReserveA1 |-> newReserveA1, newReserveB1 |-> newReserveB1,
         victimOut |-> hop2.amountOut,
         newReserveA2 |-> newReserveA2, newReserveB2 |-> newReserveB2,
         actualBackRunAmount |-> actualBackRunAmount,
         amountOut3 |-> hop3.amountOut]

\* front-run and back-run amounts handed to the contract, in whole tokens
FrontRunAmounts == {1, 15, 60}

BackRunAmounts == {1, 60}

NoSandwich == [pc |-> "none"]

\* the contract simulates a sandwich on the pool and the victim amount of the sizing
ContractSandwich(f, b) ==
    /\ sizing.pc # "none"
    /\ sandwich.pc = "none"
    /\ sandwich' = CalculateSandwichResults(sizing.x \div Scale, sizing.y \div Scale, f,
                                            sizing.v \div Scale, b)
    /\ UNCHANGED <<extVars, now, obsVars, procVars, execVars, tmVars, sizing, admission, analysis>>

OptimizerNext ==
    \/ CalculateOptimalSandwichParams
    \/ \E f \in FrontRunAmounts, b \in BackRunAmounts : ContractSandwich(f, b)

(***************************************************************************)
(* handlePendingTransaction from the transaction on: the gas-price test,   *)
(* the decoder's last test, the sizing and the admission.  The outcome of  *)
(* the three-hop simulation (a front-run amount within the clamp, a gross  *)
(* profit, or an exception) is an input here, everything after it is       *)
(* computed as calculateOptimalSandwichParams computes it.                 *)
(***************************************************************************)
\* isTxGasPriceTooHigh(tx)
IsTxGasPriceTooHigh(victimGas) == victimGas > MAX_GAS_PRICE

\* the decoder's confidence floor, 0.7, in thousandths
MIN_CONFIDENCE == 700

\* calculateSandwichParameters: confidence = min(1, max(0, 1 - 2 * priceImpact)),
\* priceImpact = victimAmountIn.mul(1000).div(reserveIn) / 1000
DecoderConfidence(v, x) == Min(PerMille, Max(0, PerMille - 2 * ((v * PerMille) \div x)))

\* calculateSandwichParameters: estimatedProfit = victimAmountIn.mul(20).div(10000)
DecoderProfit(v) == (v * UnitsPerHundredth * 20) \div BIPS_DIVISOR

DecoderRejects_NoConfidence(estimatedProfit, confidence) == estimatedProfit <= 0

\* analyzePendingTransaction: estimatedProfit.lte(0) || confidence < 0.7
DecoderRejects(estimatedProfit, confidence) ==
    estimatedProfit <= 0 \/ confidence < MIN_CONFIDENCE

\* victim amounts of the handled transactions, in tokens, on a pool of PoolUnits
PoolUnits == 100

HandledVictimUnits == {10, 15, 16, 200}

\* the front-run amount of the sizing, in tenths of the victim amount
FrontRunShares == {0, 3}

\* the gross profit of the simulation, in hundredths of a token
GrossProfits == {0, 4, 2000}

HandledGasPrices == {20, 80, 100, 120}

\* the fields of a handled transaction
HandledTx ==
    [pc |-> "tx", x |-> Scale, v |-> 0, share |-> 0, grossProfit |-> 0,
     simulationThrows |-> FALSE, victimGas |-> 0, networkGas |-> 0,
     bufferRejected |-> FALSE, gatesPass |-> FALSE, dropped |-> "no",
     params |-> CatchResult, admitted |-> FALSE]

NoAdmission == [pc |-> "none"]

\* a transaction handed to handlePendingTransaction
AdmissionInputs ==
    {[HandledTx EXCEPT !.x = PoolUnits * Scale, !.v = u * Scale,
                         !.share = sh, !.grossProfit = gp, !.simulationThrows = th,
                         !.victimGas = vg, !.networkGas = ng, !.bufferRejected = br,
                         !.gatesPass = gt] :
        u \in HandledVictimUnits, sh \in FrontRunShares, gp \in GrossProfits,
        th \in BOOLEAN, vg \in HandledGasPrices, ng \in NetworkGasPrices,
        br \in BOOLEAN, gt \in BOOLEAN}

\* the result of calculateOptimalFrontRunAmount for the handled transaction
FrontRunResult(ad) ==
    LET a == (ad.v * ad.share) \div 10
    IN  [NoResult EXCEPT !.capped = a, !.threw = ad.simulationThrows,
                         !.optimalFrontRunAmount = a,
                         !.expectedProfit = ad.grossProfit,
                         !.confidence = Confidence(a, ad.x)]

\* handlePendingTransaction up to the return of analyzePendingTransaction
HandleAnalyze ==
    /\ admission.pc = "tx"
    /\ admission' =
          IF IsTxGasPriceTooHigh(admission.victimGas)
          THEN [admission EXCEPT !.pc = "done", !.dropped = "gasPrice"]
          ELSE IF ~admission.gatesPass
          THEN [admission EXCEPT !.pc = "done", !.dropped = "null"]
          ELSE IF DecoderRejects(DecoderProfit(admission.v),
                                 DecoderConfidence(admission.v, admission.x))
          THEN [admission EXCEPT !.pc = "done", !.dropped = "confidence"]
          ELSE [admission EXCEPT !.pc = "analysed"]
    /\ UNCHANGED <<extVars, now, obsVars, procVars, execVars, tmVars, sizing, sandwich, analysis>>

\* calculateOptimalSandwichParams(opportunity) returns to the handler
HandleSized ==
    /\ admission.pc = "analysed"
    /\ admission' = [admission EXCEPT
                        !.pc = "sized",
                        !.params = SandwichParams(FrontRunResult(admission),
                                                  admission.victimGas, admission.networkGas,
                                                  admission.bufferRejected)]
    /\ UNCHANGED <<extVars, now, obsVars, procVars, execVars, tmVars, sizing, sandwich, analysis>>

\* if (!sandwichParams.profitable) return; pendingOpportunities.set(...)
HandleAdmit ==
    /\ admission.pc = "sized"
    /\ admission' =
          IF ~admission.params.profitable
          THEN [admission EXCEPT !.pc = "done", !.dropped = "unprofitable"]
          ELSE [admission EXCEPT !.pc = "done", !.admitted = TRUE]
    /\ UNCHANGED <<extVars, now, obsVars, procVars, execVars, tmVars, sizing, sandwich, analysis>>

AdmissionNext ==
    \/ HandleAnalyze
    \/ HandleSized
    \/ HandleAdmit

(***************************************************************************)
(* TransactionDecoder.analyzePendingTransaction (utils/TransactionDecoder).*)
(* What the transaction is and what each call on the registry and the      *)
(* provider answers are inputs; "throws" is the call failing.              *)
(***************************************************************************)
\* tx.to: missing, a router of SUPPORTED_DEXES, another address
Destinations == {"none", "router", "other"}

\* tx.data: parseTransaction throws on it; it decodes to a function that is
\* no swap; to a swap function extractSwapDetails has no case for; to a swap
\* whose arguments make extractSwapDetails throw; to a swap with its details
CallData == {"undecodable", "notSwap", "unknownSwap", "malformed", "swap"}

PathLengths == {1, 2, 3}

\* swapDetails.path: one token, one hop, two hops, two hops back to the input
Paths == {<<"A">>, <<"A", "B">>, <<"A", "B", "C">>, <<"A", "B", "A">>}

NoPair == <<"none", "none">>

\* isTokenBlacklisted(token)
BlacklistAnswers == {"no", "yes", "throws"}

\* checkPairLiquidity(tokenA, tokenB): below MIN_PAIR_LIQUIDITY, between the
\* two limits, at or above MAX_PAIR_LIQUIDITY
LiquidityAnswers == {"thin", "ok", "deep", "throws"}

\* getTokenValueInETH(path[0], amountIn) against minOpportunitySize
ValueAnswers == {"below", "atLeast", "throws"}

\* getPairAddress and getPairReserves
PairAnswers == {"info", "null", "throws"}

\* calculateSandwichParameters and the test of line 96
SizingAnswers == {"accepted", "rejected", "throws"}

\* the fields of an analysed transaction
AnalysedTx ==
    [pc |-> "tx", to |-> "none", data |-> "undecodable", pathLength |-> 1,
     blacklistedA |-> "no", blacklistedB |-> "no", liquidity |-> "thin",
     value |-> "below", pair |-> "null", parameters |-> "rejected",
     result |-> "none", decoded |-> FALSE, registryCalls |-> 0,
     path |-> <<"A">>, gated |-> NoPair, sized |-> NoPair]

NoAnalysis == [pc |-> "none"]

\* a transaction handed to analyzePendingTransaction
AnalysisInputs ==
    {[AnalysedTx EXCEPT !.to = t, !.data = d, !.pathLength = Len(p), !.path = p,
                        !.blacklistedA = ba, !.blacklistedB = bb, !.liquidity = lq,
                        !.value = va, !.pair = pr, !.parameters = sz] :
        t \in Destinations, d \in CallData, p \in Paths, ba \in BlacklistAnswers,
        bb \in BlacklistAnswers, lq \in LiquidityAnswers, va \in ValueAnswers,
        pr \in PairAnswers, sz \in SizingAnswers}

\* !tx.to || !this.isSupportedRouter(tx.to)
IsSupportedRouter(to) == to = "router"

LiquidityAcceptable_AnyDepth(lq) == lq \in {"ok", "deep"}

\* liquidityCheck.isLiquid && !liquidityCheck.isTooDeep
LiquidityAcceptable(lq) == lq = "ok"

\* isValidTokenPair(path): [answer, threw, calls made on the registry]
IsValidTokenPair(tx) ==
    IF tx.pathLength < 2 THEN [valid |-> FALSE, threw |-> FALSE, calls |-> 0]
    ELSE IF tx.blacklistedA = "throws" THEN [valid |-> FALSE, threw |-> TRUE, calls |-> 1]
    ELSE IF tx.blacklistedA = "yes" THEN [valid |-> FALSE, threw |-> FALSE, calls |-> 1]
    ELSE IF tx.blacklistedB = "throws" THEN [valid |-> FALSE, threw |-> TRUE, calls |-> 2]
    ELSE IF tx.blacklistedB = "yes" THEN [valid |-> FALSE, threw |-> FALSE, calls |-> 2]
    ELSE IF tx.liquidity = "throws" THEN [valid |-> FALSE, threw |-> TRUE, calls |-> 3]
    ELSE [valid |-> LiquidityAcceptable(tx.liquidity), threw |-> FALSE, calls |-> 3]

\* the body of the try of analyzePendingTransaction: [result, threw, decoded, calls]
AnalyzeBody(tx) ==
    LET pairCheck == IsValidTokenPair(tx)
        Out(r, th, n) == [result |-> r, threw |-> th, decoded |-> TRUE, calls |-> n]
    IN  IF tx.data = "undecodable" THEN Out("null", FALSE, 0)
        ELSE IF tx.data = "notSwap" THEN Out("null", FALSE, 0)
        ELSE IF tx.data \in {"unknownSwap", "malformed"} THEN Out("null", FALSE, 0)
        ELSE IF pairCheck.threw THEN Out("null", TRUE, pairCheck.calls)
        ELSE IF ~pairCheck.valid THEN Out("null", FALSE, pairCheck.calls)
        ELSE IF tx.value = "throws" THEN Out("null", TRUE, 4)
        ELSE IF tx.value = "below" THEN Out("null", FALSE, 4)
        ELSE IF tx.pair = "throws" THEN Out("null", TRUE, 5)
        ELSE IF tx.pair = "null" THEN Out("null", FALSE, 5)
        ELSE IF tx.parameters = "throws" THEN Out("null", TRUE, 5)
        ELSE IF tx.parameters = "rejected" THEN Out("null", FALSE, 5)
        ELSE Out("opportunity", FALSE, 5)

\* the pair isValidTokenPair asks the registry about: tokenA = path[0],
\* tokenB = path[path.length - 1]
GatedPair(path) == <<path[1], path[Len(path)]>>

\* the pair of getPairAddress(path[0], path[1], tx.to) and of
\* getPairReserves(pairAddress, path[0], path[1]), whose reserves become
\* the opportunity's pairInfo
SizedPair(path) == <<path[1], path[2]>>

OuterCatch_Rethrows(body) == IF body.threw THEN "throws" ELSE body.result

\* catch (error) { logger.error(...); return null; }
OuterCatch(body) == IF body.threw THEN "null" ELSE body.result

\* analyzePendingTransaction(tx)
AnalyzePendingTransaction ==
    /\ analysis.pc = "tx"
    /\ analysis' =
          IF ~IsSupportedRouter(analysis.to)
          THEN [analysis EXCEPT !.pc = "done", !.result = "null"]
          ELSE LET body == AnalyzeBody(analysis)
                   returned == OuterCatch(body) = "opportunity"
               IN  [analysis EXCEPT !.pc = "done", !.result = OuterCatch(body),
                                    !.decoded = body.decoded,
                                    !.registryCalls = body.calls,
                                    !.gated = IF returned THEN GatedPair(analysis.path)
                                              ELSE NoPair,
                                    !.sized = IF returned THEN SizedPair(analysis.path)
                                              ELSE NoPair]
    /\ UNCHANGED <<extVars, now, obsVars, procVars, execVars, tmVars, sizing, sandwich, admission>>

AnalysisNext == AnalyzePendingTransaction

(***************************************************************************)
(* analyzePendingTransaction called twice on one payload.  The payload is  *)
(* tx.to and tx.data; what the registry answers (the learned blacklist,    *)
(* the pool's liquidity, the value of the input) and Date.now() belong to  *)
(* each call.                                                              *)
(***************************************************************************)
\* `return null`
NullIntent == [kind |-> "null", submittedTime |-> 0]

\* the object of lines 104-120: of its fields only submittedTime: Date.now()
\* is read from outside the payload and the registry's answers
Opportunity(t) == [kind |-> "opportunity", submittedTime |-> t]

\* the registry's answers to one call; the pool exists and the test of line
\* 96 passes in both calls
TwiceAnswers ==
    [blacklistedA : {"no", "yes"}, blacklistedB : {"no", "yes"},
     liquidity : {"thin", "ok"}, value : {"below", "atLeast"}]

NoAnswers == [blacklistedA |-> "no", blacklistedB |-> "no", liquidity |-> "ok",
              value |-> "atLeast"]

NoTwice == [pc |-> "none"]

\* a payload about to be classified for the first time
TwiceInputs ==
    [pc : {"first"}, to : Destinations, data : CallData, pathLength : PathLengths,
     seen : {NoAnswers}, first : {NullIntent}, second : {NullIntent}]

\* blacklistedTokens only grows (part_002:782): a token answered for from the
\* set is answered for from the set again
AnswersFollow(seen, a) ==
    /\ seen.blacklistedA = "yes" => a.blacklistedA = "yes"
    /\ seen.blacklistedB = "yes" => a.blacklistedB = "yes"

\* the transaction analyzePendingTransaction sees in a call answered with a
PayloadWith(tw, a) ==
    [AnalysedTx EXCEPT !.to = tw.to, !.data = tw.data, !.pathLength = tw.pathLength,
                       !.path = CHOOSE p \in Paths : Len(p) = tw.pathLength,
                       !.blacklistedA = a.blacklistedA, !.blacklistedB = a.blacklistedB,
                       !.liquidity = a.liquidity, !.value = a.value,
                       !.pair = "info", !.parameters = "accepted"]

\* what analyzePendingTransaction(tx) returns at time t
Classify(tx, t) ==
    IF ~IsSupportedRouter(tx.to) THEN NullIntent
    ELSE IF OuterCatch(AnalyzeBody(tx)) = "opportunity" THEN Opportunity(t)
    ELSE NullIntent

\* the first call
ClassifyFirst(a) ==
    /\ twice.pc = "first"
    /\ twice' = [twice EXCEPT !.pc = "second", !.seen = a,
                              !.first = Classify(PayloadWith(twice, a), now)]
    /\ UNCHANGED <<now, obsVars, procVars, execVars, tmVars, calcVars, chainVars, lifeVars>>

\* the second call, on the same payload
ClassifySecond(a) ==
    /\ twice.pc = "second"
    /\ AnswersFollow(twice.seen, a)
    /\ twice' = [twice EXCEPT !.pc = "done",
                              !.second = Classify(PayloadWith(twice, a), now)]
    /\ UNCHANGED <<now, obsVars, procVars, execVars, tmVars, calcVars, chainVars, lifeVars>>

TwiceNext ==
    \/ \E a \in TwiceAnswers : ClassifyFirst(a)
    \/ \E a \in TwiceAnswers : ClassifySecond(a)
    \/ Tick

(***************************************************************************)
(* MempoolObserver restarted: start() and stop() called any number of      *)
(* times, every processOpportunities invocation they leave behind, and     *)
(* attemptReconnect.  The clock stands still in these runs, so no entry    *)
(* expires; whether an execution succeeded is what executeSandwich         *)
(* returned.                                                               *)
(***************************************************************************)
\* this.maxReconnectAttempts
maxReconnectAttempts == 10

\* a start() call suspended at verifyContractState; its processOpportunities
\* invocation comes after it
NewLoop == [pc |-> "verify", cycleNow |-> 0, it |-> 0, cur |-> NoEntry, gas |-> 0]

LoopIds == 1..Len(loops)

\* a Map iterator's index after other code turned the map m into m2 by deletions
ItAfterPurge(m, m2, i) ==
    i - Cardinality({k \in 1..i : ~HasKey(m2, m[k].txHash)})

\* invocation i resumes with the result r of its for-of loop; the iterators of
\* the other invocations follow the deletions
LoopsGo(i, r) ==
    /\ pendingOpportunities' = r.map
    /\ loops' = [j \in LoopIds |->
                    IF j = i
                    THEN [loops[j] EXCEPT !.pc = r.pc, !.it = r.it, !.cur = r.cur, !.gas = 0]
                    ELSE [loops[j] EXCEPT
                             !.it = ItAfterPurge(pendingOpportunities, r.map, loops[j].it)]]

\* while (this.isActive) { const now = Date.now(); for (...) ...
LoopsCycle(i, t) ==
    IF isActive
    THEN LoopsGo(i, Advance(pendingOpportunities, 0, t))
    ELSE /\ loops' = [loops EXCEPT ![i].pc = "stopped", ![i].it = 0, ![i].cur = NoEntry]
         /\ UNCHANGED pendingOpportunities

\* start() up to its await of verifyContractState; with isActive set it only warns
Restart ==
    /\ ~isActive
    /\ Len(loops) < MaxStarts
    /\ isActive' = TRUE
    /\ loops' = Append(loops, NewLoop)
    /\ UNCHANGED <<now, wsOpen, startPc, processedTxs, pendingOpportunities, handlers, nextId,
                   loopPc, cycleNow, it, cur, currentGasPrice, invokedAt, executed,
                   procVars, execVars, tmVars, calcVars, twice, chainVars, reconnect, failedRun>>

\* start() resumes: subscribeToMempool(), then its processOpportunities() runs
\* to its first await
RestartResume(i) ==
    /\ loops[i].pc = "verify"
    /\ wsOpen' = TRUE
    /\ LoopsCycle(i, now)
    /\ UNCHANGED <<now, isActive, startPc, processedTxs, handlers, nextId,
                   loopPc, cycleNow, it, cur, currentGasPrice, invokedAt, executed,
                   procVars, execVars, tmVars, calcVars, twice, chainVars, reconnect, failedRun>>

\* the sleep of invocation i is over: its next cycle
LoopsWake(i) ==
    /\ loops[i].pc \in {"sleep", "sleepErr"}
    /\ LoopsCycle(i, now)
    /\ UNCHANGED <<now, isActive, wsOpen, startPc, processedTxs, handlers, nextId,
                   loopPc, cycleNow, it, cur, currentGasPrice, invokedAt, executed,
                   procVars, execVars, tmVars, calcVars, twice, chainVars, reconnect, failedRun>>

\* provider.getGasPrice() settles with price g for invocation i
LoopsGasPrice(i, g) ==
    /\ loops[i].pc = "gas"
    /\ loops' = [loops EXCEPT ![i].pc = "gasResume", ![i].gas = g]
    /\ UNCHANGED <<now, obsVars, procVars, execVars, tmVars, calcVars, twice, chainVars,
                   reconnect, failedRun>>

\* provider.getGasPrice() rejects: the catch of the cycle, then sleep(1000)
LoopsGasError(i) ==
    /\ loops[i].pc = "gas"
    /\ loops' = [loops EXCEPT ![i].pc = CatchGoes, ![i].it = 0, ![i].cur = NoEntry]
    /\ UNCHANGED <<now, obsVars, procVars, execVars, tmVars, calcVars, twice, chainVars,
                   reconnect, failedRun>>

\* invocation i resumes with the gas price: `continue` when it is too high,
\* otherwise executor.executeSandwich(opportunity, sandwichParams) is called
LoopsAfterGas(i) ==
    /\ loops[i].pc = "gasResume"
    /\ IF GasTooHigh(loops[i].gas)
       THEN /\ LoopsGo(i, Advance(pendingOpportunities, loops[i].it, loops[i].cycleNow))
            /\ UNCHANGED executed
       ELSE /\ loops' = [loops EXCEPT ![i].pc = "exec", ![i].gas = 0]
            /\ executed' = [executed EXCEPT ![loops[i].cur.txHash] = @ + 1]
            /\ UNCHANGED pendingOpportunities
    /\ UNCHANGED <<now, isActive, wsOpen, startPc, processedTxs, handlers, nextId,
                   loopPc, cycleNow, it, cur, currentGasPrice, invokedAt,
                   procVars, execVars, tmVars, calcVars, twice, chainVars, reconnect, failedRun>>

\* the executions that failed in a row once executeSandwich returned
\* {success: ok}: stats.successfulExecutions++ or stats.failedExecutions++
FailedRunAfter(n, ok) == IF ok THEN 0 ELSE n + 1

\* executeSandwich returns to invocation i: pendingOpportunities.delete(txHash),
\* the statistics, and on to the next entry
LoopsExecReturn(i, ok) ==
    /\ loops[i].pc = "exec"
    /\ LoopsGo(i, Advance(MapDelete(pendingOpportunities, loops[i].cur.txHash),
                          ItAfterDelete(pendingOpportunities, loops[i].it, loops[i].cur.txHash),
                          loops[i].cycleNow))
    /\ failedRun' = FailedRunAfter(failedRun, ok)
    /\ UNCHANGED <<now, isActive, wsOpen, startPc, processedTxs, handlers, nextId,
                   loopPc, cycleNow, it, cur, currentGasPrice, invokedAt, executed,
                   procVars, execVars, tmVars, calcVars, twice, chainVars, reconnect>>

\* the websocket emits 'error' (handler of line 151), or 'close' while
\* isActive (line 156): attemptReconnect() up to its sleep.  Past
\* maxReconnectAttempts it calls stop()
AttemptReconnect ==
    /\ wsOpen
    /\ reconnect.made < MaxReconnects
    /\ IF ~isActive
       THEN UNCHANGED <<isActive, wsOpen, reconnect>>
       ELSE IF reconnect.attempts >= maxReconnectAttempts
       THEN /\ isActive' = FALSE
            /\ wsOpen' = FALSE
            /\ UNCHANGED reconnect
       ELSE /\ reconnect' = [attempts |-> reconnect.attempts + 1,
                             waiting |-> reconnect.waiting + 1,
                             made |-> reconnect.made + 1]
            /\ wsOpen' = FALSE
            /\ UNCHANGED isActive
    /\ UNCHANGED <<now, startPc, processedTxs, pendingOpportunities, handlers, nextId,
                   loopPc, cycleNow, it, cur, currentGasPrice, invokedAt, executed,
                   procVars, execVars, tmVars, calcVars, twice, chainVars, loops, failedRun>>

\* the sleep of attemptReconnect is over: subscribeToMempool(), and the new
\* socket opens (reconnectAttempts = 0) and subscribes
ReconnectResume ==
    /\ reconnect.waiting > 0
    /\ reconnect' = [reconnect EXCEPT !.waiting = @ - 1, !.attempts = 0]
    /\ wsOpen' = TRUE
    /\ UNCHANGED <<now, isActive, startPc, processedTxs, pendingOpportunities, handlers, nextId,
                   loopPc, cycleNow, it, cur, currentGasPrice, invokedAt, executed,
                   procVars, execVars, tmVars, calcVars, twice, chainVars, loops, failedRun>>

(***************************************************************************)
(* FlashLoanSandwich.sol: the guarded entry points, the flash-loan         *)
(* callback and the owner's functions.  A transaction is one action; a     *)
(* failed require, a failed external call or an arithmetic underflow       *)
(* (Solidity 0.8 checks it) reverts it, and storage and balances are then  *)
(* those before it.  The router and the lending pool are other contracts:  *)
(* what a swap pays out and the premium are inputs.  Amounts are far below *)
(* 2^256, so no addition overflows.                                        *)
(***************************************************************************)
\* msg.sender: the deployer, another account, the lending pool
Senders == {"owner", "user", "pool"}

\* the initiator the lending pool passes to executeOperation: the contract
\* itself, or whoever else asked the pool for a loan to this receiver
Initiators == {"self", "other"}

\* the accounts that send transactions
Accounts == {"owner", "user"}

\* minProfitThreshold and maxGasPrice given to the constructor and to updateParameters
Thresholds == {1, 5}

GasCaps == {100, 150}

\* tx.gasprice
TxGasPrices == {100, 200}

\* the arguments of a sandwich that goes through: a loan of 10 at a premium of
\* 1 (msg.value 10 on the ETH path), all of it swapped for 8 of token B, all
\* of token B swapped back for 14
SandwichCall ==
    [loanAmount |-> 10, premium |-> 1, value |-> 10, frontRunAmount |-> 10,
     backRunAmount |-> 50, frontOut |-> 8, backOut |-> 14, accepts |-> TRUE]

\* that call, and the calls that differ from it in one argument or in one
\* answer of the router or of the owner's account
SandwichCalls ==
    {SandwichCall}
    \cup {[SandwichCall EXCEPT !.loanAmount = a] : a \in {0, 5}}
    \cup {[SandwichCall EXCEPT !.value = a] : a \in {5}}
    \cup {[SandwichCall EXCEPT !.backRunAmount = a] : a \in {5}}
    \cup {[SandwichCall EXCEPT !.frontOut = a] : a \in {0}}
    \cup {[SandwichCall EXCEPT !.backOut = a] : a \in {0, 11, 16}}
    \cup {[SandwichCall EXCEPT !.accepts = a] : a \in {FALSE}}

NoContract == [pc |-> "none"]

\* the contract once its constructor has run with thresholds t and g
Deployed(t, g) ==
    [pc |-> "deployed", owner |-> "owner", emergencyStop |-> FALSE,
     minProfitThreshold |-> t, maxGasPrice |-> g,
     assetBalance |-> 0, tokenBBalance |-> 0, ethBalance |-> 0, sandwichExecuted |-> 0]

\* the outcome of a transaction on the contract in state c
Revert(c) ==
    [reverted |-> TRUE, state |-> c, profit |-> 0, finalBalance |-> 0, owing |-> 0,
     paidToOwner |-> 0]

Success(c, profit, finalBalance, owing, paid) ==
    [reverted |-> FALSE, state |-> c, profit |-> profit, finalBalance |-> finalBalance,
     owing |-> owing, paidToOwner |-> paid]

\* a modifier that lets every caller in
OnlyOwner_Anyone(sender, c) == TRUE

\* modifier onlyOwner
OnlyOwner(sender, c) == sender = c.owner

\* a modifier that ignores the emergency stop
NotStopped_Ignored(c) == TRUE

\* modifier notStopped
NotStopped(c) == ~c.emergencyStop

\* modifier checkGasPrice
CheckGasPrice(gasPrice, c) == gasPrice <= c.maxGasPrice

\* a threshold test that lets every profit through
MeetsThreshold_Any(profit, c) == TRUE

\* require(profit >= minProfitThreshold, "Profit below threshold")
MeetsThreshold(profit, c) == profit >= c.minProfitThreshold

\* toggleEmergencyStop()
ToggleEmergencyStop(sender, c) ==
    IF ~OnlyOwner(sender, c) THEN Revert(c)
    ELSE Success([c EXCEPT !.emergencyStop = ~@], 0, 0, 0, 0)

\* updateParameters(_minProfitThreshold, _maxGasPrice)
UpdateParameters(sender, t, g, c) ==
    IF ~OnlyOwner(sender, c) THEN Revert(c)
    ELSE Success([c EXCEPT !.minProfitThreshold = t, !.maxGasPrice = g], 0, 0, 0, 0)

\* emergencyWithdraw(token): the ETH when token is the zero address, else the
\* token balance (the asset here), to the owner; accepts says whether the
\* owner's account takes the ETH
EmergencyWithdraw(sender, token, accepts, c) ==
    IF ~OnlyOwner(sender, c) THEN Revert(c)
    ELSE IF token = "eth"
    THEN IF ~accepts THEN Revert(c)
         ELSE Success([c EXCEPT !.ethBalance = 0], 0, 0, 0, c.ethBalance)
    ELSE Success([c EXCEPT !.assetBalance = 0], 0, 0, 0, c.assetBalance)

\* _executeFrontRunWithPath then _executeBackRunWithPath on the balances of c:
\* swapExactTokensForTokens(amountIn, 1, ...) reverts when it cannot take
\* amountIn or would pay out less than 1
SwapBothWays(c, frontRunAmount, backRunAmount, frontOut, backOut) ==
    IF frontRunAmount > c.assetBalance \/ frontOut < 1
    THEN [reverted |-> TRUE, state |-> c]
    ELSE LET c1 == [c EXCEPT !.assetBalance = @ - frontRunAmount,
                             !.tokenBBalance = @ + frontOut]
             actualBackRunAmount == Min(backRunAmount, c1.tokenBBalance)
         IN  IF actualBackRunAmount = 0 THEN [reverted |-> FALSE, state |-> c1]
             ELSE IF backOut < 1 THEN [reverted |-> TRUE, state |-> c]
             ELSE [reverted |-> FALSE,
                   state |-> [c1 EXCEPT !.tokenBBalance = @ - actualBackRunAmount,
                                        !.assetBalance = @ + backOut]]

\* _executeSandwichOperation(asset, amount, premium, tokenA, tokenB, frontRunAmount, backRunAmount)
ExecuteSandwichOperation(c, amount, premium, frontRunAmount, backRunAmount, frontOut, backOut) ==
    LET initialBalance == c.assetBalance
        swaps == SwapBothWays(c, frontRunAmount, backRunAmount, frontOut, backOut)
        finalBalance == swaps.state.assetBalance
        amountOwing == amount + premium
        profit == finalBalance - initialBalance - premium
    IN  IF swaps.reverted THEN Revert(c)
        ELSE IF finalBalance < amountOwing THEN Revert(c)
        ELSE IF profit < 0 THEN Revert(c)
        ELSE IF ~MeetsThreshold(profit, c) THEN Revert(c)
        ELSE Success(swaps.state, profit, finalBalance, amountOwing, 0)

\* executeOperation(assets, amounts, premiums, initiator, params), the contract
\* in state c holding the loan when the pool calls it
ExecuteOperation(sender, initiator, late, c, amount, premium, frontRunAmount, backRunAmount, frontOut, backOut) ==
    IF sender # "pool" THEN Revert(c)
    ELSE IF initiator # "self" THEN Revert(c)
    ELSE IF late THEN Revert(c)
    ELSE IF frontRunAmount > amount THEN Revert(c)
    ELSE LET op == ExecuteSandwichOperation(c, amount, premium, frontRunAmount,
                                            backRunAmount, frontOut, backOut)
         IN  IF op.reverted THEN Revert(c)
             ELSE [op EXCEPT !.state.sandwichExecuted = @ + 1]

\* executeSandwich(tokenA, tokenB, loanAmount, frontRunAmount, ..., deadline):
\* lendingPool.flashLoan pays the loan in, calls executeOperation and takes
\* the loan and the premium back
ExecuteSandwich(sender, gasPrice, late, c, loanAmount, premium, frontRunAmount, backRunAmount, frontOut, backOut) ==
    IF ~OnlyOwner(sender, c) THEN Revert(c)
    ELSE IF ~NotStopped(c) THEN Revert(c)
    ELSE IF ~CheckGasPrice(gasPrice, c) THEN Revert(c)
    ELSE IF late THEN Revert(c)
    ELSE IF loanAmount <= 0 THEN Revert(c)
    ELSE LET lent == [c EXCEPT !.assetBalance = @ + loanAmount]
             op == ExecuteOperation("pool", "self", late, lent, loanAmount, premium,
                                    frontRunAmount, backRunAmount, frontOut, backOut)
         IN  IF op.reverted THEN Revert(c)
             ELSE [op EXCEPT !.state.assetBalance = @ - op.owing]

\* executeSandwichWithETH(tokenB, frontRunAmount, ..., deadline) with msg.value
\* = value; the asset is WETH
ExecuteSandwichWithETH(sender, gasPrice, late, c, value, frontRunAmount, backRunAmount, frontOut, backOut, accepts) ==
    IF ~OnlyOwner(sender, c) THEN Revert(c)
    ELSE IF ~NotStopped(c) THEN Revert(c)
    ELSE IF ~CheckGasPrice(gasPrice, c) THEN Revert(c)
    ELSE IF late THEN Revert(c)
    ELSE IF value < frontRunAmount THEN Revert(c)
    ELSE LET wrapped == [c EXCEPT !.ethBalance = @ + value - frontRunAmount,
                                  !.assetBalance = @ + frontRunAmount]
             initialWETHBalance == wrapped.assetBalance
             swaps == SwapBothWays(wrapped, frontRunAmount, backRunAmount, frontOut, backOut)
             finalWETHBalance == swaps.state.assetBalance
             profit == finalWETHBalance - initialWETHBalance
             unwrapped == [swaps.state EXCEPT !.assetBalance = 0,
                                              !.ethBalance = @ + finalWETHBalance]
         IN  IF swaps.reverted THEN Revert(c)
             ELSE IF finalWETHBalance <= initialWETHBalance THEN Revert(c)
             ELSE IF ~MeetsThreshold(profit, c) THEN Revert(c)
             ELSE IF ~accepts THEN Revert(c)
             ELSE Success([unwrapped EXCEPT !.ethBalance = 0, !.sandwichExecuted = @ + 1],
                          profit, finalWETHBalance, 0, unwrapped.ethBalance)

\* the fields of a transaction sent to the contract
Transaction ==
    [fn |-> "deploy", n |-> 0, sender |-> "owner", initiator |-> "self", gasPrice |-> 0,
     late |-> FALSE, value |-> 0, before |-> NoContract, reverted |-> FALSE, profit |-> 0,
     finalBalance |-> 0, owing |-> 0, paidToOwner |-> 0]

NoTransaction == [fn |-> "none"]

\* the transaction tx is mined with outcome out
Mined(tx, out) ==
    /\ lastCall.n < MaxTransactions
    /\ contract' = out.state
    /\ lastCall' = [tx EXCEPT !.n = lastCall.n + 1, !.before = contract,
                              !.reverted = out.reverted, !.profit = out.profit,
                              !.finalBalance = out.finalBalance, !.owing = out.owing,
                              !.paidToOwner = out.paidToOwner]
    /\ UNCHANGED <<now, obsVars, procVars, execVars, tmVars, calcVars, twice, lifeVars>>

SendToggleEmergencyStop(sender) ==
    Mined([Transaction EXCEPT !.fn = "toggleEmergencyStop", !.sender = sender],
          ToggleEmergencyStop(sender, contract))

SendUpdateParameters(sender, t, g) ==
    Mined([Transaction EXCEPT !.fn = "updateParameters", !.sender = sender],
          UpdateParameters(sender, t, g, contract))

SendEmergencyWithdraw(sender, token, accepts) ==
    Mined([Transaction EXCEPT !.fn = "emergencyWithdraw", !.sender = sender],
          EmergencyWithdraw(sender, token, accepts, contract))

\* executeOperation called from outside a loan of the contract's own: by an
\* account, or by the pool for a loan somebody else initiated
SendExecuteOperation(sender, initiator, call) ==
    /\ ~(sender = "pool" /\ initiator = "self")
    /\ LET lent == IF sender = "pool"
                   THEN [contract EXCEPT !.assetBalance = @ + call.loanAmount]
                   ELSE contract
           out == ExecuteOperation(sender, initiator, FALSE, lent, call.loanAmount,
                                   call.premium, call.frontRunAmount, call.backRunAmount,
                                   call.frontOut, call.backOut)
       IN  Mined([Transaction EXCEPT !.fn = "executeOperation", !.sender = sender,
                                     !.initiator = initiator],
                 IF out.reverted THEN Revert(contract) ELSE out)

SendExecuteSandwich(sender, gasPrice, late, call) ==
    Mined([Transaction EXCEPT !.fn = "executeSandwich", !.sender = sender,
                              !.gasPrice = gasPrice, !.late = late],
          ExecuteSandwich(sender, gasPrice, late, contract, call.loanAmount, call.premium,
                          call.frontRunAmount, call.backRunAmount, call.frontOut,
                          call.backOut))

SendExecuteSandwichWithETH(sender, gasPrice, late, call) ==
    Mined([Transaction EXCEPT !.fn = "executeSandwichWithETH", !.sender = sender,
                              !.gasPrice = gasPrice, !.late = late, !.value = call.value],
          ExecuteSandwichWithETH(sender, gasPrice, late, contract, call.value,
                                 call.frontRunAmount, call.backRunAmount, call.frontOut,
                                 call.backOut, call.accepts))

\* receive(): anybody sends the contract ETH
SendEther(sender, value) ==
    Mined([Transaction EXCEPT !.fn = "receive", !.sender = sender, !.value = value],
          Success([contract EXCEPT !.ethBalance = @ + value], 0, 0, 0, 0))

ContractNext ==
    \/ \E sender \in Accounts : SendToggleEmergencyStop(sender)
    \/ \E sender \in Accounts, t \in Thresholds, g \in GasCaps : SendUpdateParameters(sender, t, g)
    \/ \E sender \in Accounts, token \in {"eth", "asset"}, accepts \in BOOLEAN :
          SendEmergencyWithdraw(sender, token, accepts)
    \/ \E sender \in Senders, initiator \in Initiators :
          SendExecuteOperation(sender, initiator, SandwichCall)
    \/ \E sender \in Accounts, g \in TxGasPrices, late \in BOOLEAN, call \in SandwichCalls :
          SendExecuteSandwich(sender, g, late, call)
    \/ \E sender \in Accounts, g \in TxGasPrices, late \in BOOLEAN, call \in SandwichCalls :
          SendExecuteSandwichWithETH(sender, g, late, call)
    \/ \E sender \in Accounts, value \in {SandwichCall.value} : SendEther(sender, value)

ObsInit ==
    /\ now = 0
    /\ isActive = FALSE
    /\ wsOpen = FALSE
    /\ startPc = "idle"
    /\ processedTxs = <<>>
    /\ pendingOpportunities = <<>>
    /\ handlers = {}
    /\ nextId = 1
    /\ loopPc = "stopped"
    /\ cycleNow = 0
    /\ it = 0
    /\ cur = NoEntry
    /\ currentGasPrice = 0
    /\ invokedAt = 0
    /\ executed = [h \in Hashes |-> 0]

CallIds == 1..MaxCalls

NoCall == [pc |-> "idle", t0 |-> 0, rpc |-> "none", fetched |-> 0, nonce |-> Null,
           sent |-> FALSE, startTime |-> 0, tracked |-> FALSE, resolved |-> FALSE,
           result |-> "none"]

\* new SandwichExecutor(provider, privateKey), no call made
ExecIdle ==
    /\ currentNonce = Null
    /\ lastNonceRefresh = 0
    /\ calls = [c \in CallIds |-> NoCall]
    /\ assigned = <<>>
    /\ mempool = {}

\* nothing sized, simulated, handled or analysed
CalcIdle ==
    /\ sizing = NoSizing
    /\ sandwich = NoSandwich
    /\ admission = NoAdmission
    /\ analysis = NoAnalysis

NoReconnect == [attempts |-> 0, waiting |-> 0, made |-> 0]

\* no payload classified twice, no contract deployed, no observer restarted
ExtIdle ==
    /\ twice = NoTwice
    /\ contract = NoContract
    /\ lastCall = NoTransaction
    /\ loops = <<>>
    /\ reconnect = NoReconnect
    /\ failedRun = 0

Init == ObsInit /\ ProcInit /\ ExecIdle /\ TmInit /\ chainCount = 0 /\ CalcIdle /\ ExtIdle

\* an opportunity is about to be sized
OptimizerInit ==
    /\ ObsInit /\ ProcInit /\ ExecIdle /\ TmInit /\ chainCount = 0 /\ ExtIdle
    /\ sizing \in SizingInputs
    /\ sandwich = NoSandwich
    /\ admission = NoAdmission
    /\ analysis = NoAnalysis

SpecOptimizer == OptimizerInit /\ [][OptimizerNext]_vars

\* a transaction is about to be handled
AdmissionInit ==
    /\ ObsInit /\ ProcInit /\ ExecIdle /\ TmInit /\ chainCount = 0 /\ ExtIdle
    /\ sizing = NoSizing
    /\ sandwich = NoSandwich
    /\ admission \in AdmissionInputs
    /\ analysis = NoAnalysis

SpecAdmission == AdmissionInit /\ [][AdmissionNext]_vars

\* a transaction is about to be analysed
AnalysisInit ==
    /\ ObsInit /\ ProcInit /\ ExecIdle /\ TmInit /\ chainCount = 0 /\ ExtIdle
    /\ sizing = NoSizing
    /\ sandwich = NoSandwich
    /\ admission = NoAdmission
    /\ analysis \in AnalysisInputs

SpecAnalysis == AnalysisInit /\ [][AnalysisNext]_vars

\* a payload is about to be classified twice
TwiceInit ==
    /\ ObsInit /\ ProcInit /\ ExecIdle /\ TmInit /\ chainCount = 0 /\ CalcIdle
    /\ twice \in TwiceInputs
    /\ contract = NoContract
    /\ lastCall = NoTransaction
    /\ loops = <<>>
    /\ reconnect = NoReconnect
    /\ failedRun = 0

SpecTwice == TwiceInit /\ [][TwiceNext]_vars

\* the contract has just been deployed
ContractInit ==
    /\ ObsInit /\ ProcInit /\ ExecIdle /\ TmInit /\ chainCount = 0 /\ CalcIdle
    /\ twice = NoTwice
    /\ contract \in {Deployed(t, g) : t \in Thresholds, g \in GasCaps}
    /\ lastCall = Transaction
    /\ loops = <<>>
    /\ reconnect = NoReconnect
    /\ failedRun = 0

SpecContract == ContractInit /\ [][ContractNext]_vars

\* the wallet is fresh, or has a transaction mined already
ExecInit == ObsInit /\ ProcInit /\ ExecIdle /\ TmInit /\ chainCount \in {0, 1} /\ CalcIdle /\ ExtIdle

Next ==
    \/ Start
    \/ StartResume
    \/ Stop
    \/ Tick
    \/ \E h \in Hashes : Notify(h)
    \/ \E hd \in handlers : HandlerAdmit(hd)
    \/ \E hd \in handlers : HandlerReject(hd)
    \/ LoopWake
    \/ \E g \in GasPrices : LoopGasPrice(g)
    \/ LoopGasError
    \/ LoopAfterGas
    \/ LoopExecReturn
    \/ LoopExecThrows
    \/ \E h \in Hashes : AddOpportunity(h)
    \/ ProcStart
    \/ ProcStop
    \/ ProcWake
    \/ \E g \in GasPrices : ProcGasPrice(g)
    \/ ProcGasError
    \/ ProcAfterGas
    \/ ProcCalculated
    \/ ProcDropped
    \/ ProcExecReturn

Spec == Init /\ [][Next]_vars

\* a step of processOpportunities: a sleep ends, an awaited call settles, or
\* the loop resumes after one
LoopStep ==
    \/ LoopWake
    \/ \E g \in GasPrices : LoopGasPrice(g)
    \/ LoopGasError
    \/ LoopAfterGas
    \/ LoopExecReturn
    \/ LoopExecThrows

\* The event loop runs the loop's continuation whenever its timer or its
\* awaited call has settled, and every awaited call settles; time passes
\* whenever the loop is not in a sleep shorter than the tick.
\* a notification of the shorter feed
LiveNotify(h) ==
    /\ nextId <= MaxLiveNotifications
    /\ Notify(h)

\* the observer while it stays active: stop() is never called
LiveNext ==
    \/ Start
    \/ StartResume
    \/ Tick
    \/ \E h \in Hashes : LiveNotify(h)
    \/ \E hd \in handlers : HandlerAdmit(hd)
    \/ \E hd \in handlers : HandlerReject(hd)
    \/ LoopStep

SpecLive == Init /\ [][LiveNext]_vars /\ WF_vars(LoopStep) /\ SF_vars(Tick)

\* the observer started, stopped and started again, its socket failing
LifeNext ==
    \/ Restart
    \/ \E i \in LoopIds : RestartResume(i)
    \/ Stop
    \/ \E h \in Hashes : LiveNotify(h)
    \/ \E hd \in handlers : HandlerAdmit(hd)
    \/ \E hd \in handlers : HandlerReject(hd)
    \/ \E i \in LoopIds : LoopsWake(i)
    \/ \E i \in LoopIds, g \in GasPrices : LoopsGasPrice(i, g)
    \/ \E i \in LoopIds : LoopsGasError(i)
    \/ \E i \in LoopIds : LoopsAfterGas(i)
    \/ \E i \in LoopIds, ok \in BOOLEAN : LoopsExecReturn(i, ok)
    \/ AttemptReconnect
    \/ ReconnectResume

SpecLife == Init /\ [][LifeNext]_vars

----------------------------------------------------------------------------
(* SandwichExecutor: executeSandwich, refreshNonce, trackTransaction *)

ExecTickStep == nonceRefreshInterval

\* !this.currentNonce
Falsy(n) == n = Null \/ n = 0

\* refreshNonce's test: !this.currentNonce || (now - this.lastNonceRefresh > this.nonceRefreshInterval)
NeedsRefresh(n, t, last) == Falsy(n) \/ t - last > nonceRefreshInterval

\* executeSandwich(opportunity, params) is called: refreshNonce runs up to its
\* await of wallet.getTransactionCount(), or returns without one
ExecCall(c) ==
    /\ calls[c].pc = "idle"
    /\ calls' = [calls EXCEPT ![c] =
                    IF NeedsRefresh(currentNonce, now, lastNonceRefresh)
                    THEN [@ EXCEPT !.pc = "getCount", !.t0 = now]
                    ELSE [@ EXCEPT !.pc = "refreshed"]]
    /\ UNCHANGED <<calcVars, extVars, now, obsVars, procVars, tmVars, currentNonce, lastNonceRefresh, chainCount, assigned, mempool>>

\* the call as processOpportunities makes it: the loop awaits the result
\* before it calls again
ExecCallInTurn(c) ==
    /\ \A d \in CallIds : calls[d].pc \in {"idle", "done"}
    /\ ExecCall(c)

\* wallet.getTransactionCount() settles: with the chain's count, or rejected
ExecCountSettles(c, ok) ==
    /\ calls[c].pc = "getCount"
    /\ calls' = [calls EXCEPT ![c] =
                    IF ok THEN [@ EXCEPT !.pc = "countResume", !.rpc = "ok", !.fetched = chainCount]
                    ELSE [@ EXCEPT !.pc = "countResume", !.rpc = "error"]]
    /\ UNCHANGED <<calcVars, extVars, now, obsVars, procVars, tmVars, currentNonce, lastNonceRefresh, chainCount, assigned, mempool>>

\* the call at pc, the locals of the finished await dropped
Settled(call, pc) ==
    [call EXCEPT !.pc = pc, !.t0 = 0, !.rpc = "none", !.fetched = 0, !.startTime = 0]

\* a catch that never throws and goes on without a nonce
ThrowsOnCountError_Never(n) == FALSE

\* refreshNonce's catch: throw when no nonce is held, else keep the one held
ThrowsOnCountError(n) == Falsy(n)

\* refreshNonce resumes. A count is stored with the time taken before the
\* await; an error with no nonce held throws, and executeSandwich's catch
\* returns {success: false}
ExecRefreshResume(c) ==
    /\ calls[c].pc = "countResume"
    /\ IF calls[c].rpc = "ok"
       THEN /\ currentNonce' = calls[c].fetched
            /\ lastNonceRefresh' = calls[c].t0
            /\ calls' = [calls EXCEPT ![c] = Settled(@, "refreshed")]
       ELSE /\ UNCHANGED <<calcVars, extVars, currentNonce, lastNonceRefresh>>
            /\ calls' = [calls EXCEPT ![c] =
                            IF ThrowsOnCountError(currentNonce)
                            THEN [Settled(@, "done") EXCEPT !.result = "NoNonce"]
                            ELSE Settled(@, "refreshed")]
    /\ UNCHANGED <<calcVars, extVars, now, obsVars, procVars, tmVars, chainCount, assigned, mempool>>

\* the value of this.currentNonce++ (null counts as 0)
PostIncrement(n) == IF n = Null THEN 0 ELSE n

\* executeSandwich resumes after refreshNonce: const nonce = this.currentNonce++,
\* then executeWithETH / executeWithFlashLoan up to the await of the submission
ExecAssign(c) ==
    /\ calls[c].pc = "refreshed"
    /\ calls' = [calls EXCEPT ![c].pc = "submit", ![c].nonce = PostIncrement(currentNonce)]
    /\ currentNonce' = PostIncrement(currentNonce) + 1
    /\ assigned' = Append(assigned, PostIncrement(currentNonce))
    /\ UNCHANGED <<calcVars, extVars, now, obsVars, procVars, tmVars, lastNonceRefresh, chainCount, mempool>>

\* contract.executeSandwich(...) settles. The node takes no transaction whose
\* nonce is below the chain's count. Taken: trackTransaction starts; rejected:
\* the catch returns {success: false}
ExecSubmitted(c, ok) ==
    /\ calls[c].pc = "submit"
    /\ ok => calls[c].nonce >= chainCount
    /\ IF ok
       THEN /\ mempool' = mempool \cup {[call |-> c, nonce |-> calls[c].nonce]}
            /\ calls' = [calls EXCEPT ![c].pc = "track", ![c].sent = TRUE,
                                       ![c].startTime = now, ![c].tracked = TRUE]
       ELSE /\ calls' = [calls EXCEPT ![c].pc = "done", ![c].result = "SubmitError"]
            /\ UNCHANGED mempool
    /\ UNCHANGED <<calcVars, extVars, now, obsVars, procVars, tmVars, currentNonce, lastNonceRefresh, chainCount, assigned>>

\* a tracking that both callbacks take for open whatever its flag
Unresolved_Always(call) == TRUE

\* if (!tracking.resolved), the test of both callbacks of trackTransaction
Unresolved(call) == ~call.resolved

\* tracking.resolved = true; this.pendingTxs.delete(txHash); resolve({...})
Resolved(call, outcome) ==
    [Settled(call, "done") EXCEPT !.resolved = TRUE, !.tracked = FALSE, !.result = outcome]

\* A transaction of the wallet is mined, which takes the chain's next nonce,
\* and provider.once(txHash) delivers the receipt: it resolves the tracking
\* unless the timeout already did
ExecReceipt(tx, status) ==
    /\ tx \in mempool
    /\ tx.nonce = chainCount
    /\ chainCount' = chainCount + 1
    /\ mempool' = {x \in mempool : x.nonce # tx.nonce}
    /\ calls' = [calls EXCEPT ![tx.call] =
                    IF @.sent /\ Unresolved(@)
                    THEN Resolved(@, IF status = 1 THEN "Success" ELSE "Reverted")
                    ELSE @]
    /\ UNCHANGED <<calcVars, extVars, now, obsVars, procVars, tmVars, currentNonce, lastNonceRefresh, assigned>>

\* the timer of a tracking is armed: set, not fired and not cleared
TimerArmed(call) == call.pc = "track"

\* trackTransaction's setTimeout fires after txTimeout
ExecTimeout(c) ==
    /\ TimerArmed(calls[c])
    /\ now - calls[c].startTime >= txTimeout
    /\ Unresolved(calls[c])
    /\ calls' = [calls EXCEPT ![c] = Resolved(@, "Timeout")]
    /\ UNCHANGED <<calcVars, extVars, now, obsVars, procVars, tmVars, currentNonce, lastNonceRefresh, chainCount, assigned, mempool>>

\* the clock advances; a timer that is due fires before it does
ExecTick ==
    /\ now < MaxExecTicks * ExecTickStep
    /\ \A c \in CallIds : TimerArmed(calls[c]) => now - calls[c].startTime < txTimeout
    /\ now' = now + ExecTickStep
    /\ UNCHANGED <<calcVars, extVars, obsVars, procVars, execVars, tmVars>>

ExecSteps ==
    \/ \E c \in CallIds, ok \in BOOLEAN : ExecCountSettles(c, ok)
    \/ \E c \in CallIds : ExecRefreshResume(c)
    \/ \E c \in CallIds : ExecAssign(c)
    \/ \E c \in CallIds, ok \in BOOLEAN : ExecSubmitted(c, ok)
    \/ \E tx \in mempool, status \in {0, 1} : ExecReceipt(tx, status)
    \/ \E c \in CallIds : ExecTimeout(c)
    \/ ExecTick

\* concurrent callers of one executor
ExecNext ==
    \/ \E c \in CallIds : ExecCall(c)
    \/ ExecSteps

\* one caller that awaits each result
SeqNext ==
    \/ \E c \in CallIds : ExecCallInTurn(c)
    \/ ExecSteps

SpecExec == ExecInit /\ [][ExecNext]_vars

SpecSeq == ExecInit /\ [][SeqNext]_vars

SpecCache == Init /\ [][CacheNext]_vars

SpecBlacklist == Init /\ [][BlacklistNext]_vars

----------------------------------------------------------------------------
(* Claims about MempoolObserver and OpportunityProcessor, checked under Spec *)

EntryOf(m, h) == m[IndexOf(m, h)]

\* the opportunities of hash h that are admitted (in pendingOpportunities) or
\* dispatched (the argument of the executeSandwich call in progress)
OppsInFlight(h) ==
    {pendingOpportunities[k].opp :
        k \in {j \in 1..Len(pendingOpportunities) : pendingOpportunities[j].txHash = h}}
    \cup (IF loopPc = "exec" /\ cur.txHash = h THEN {cur.opp} ELSE {})

\* C1: at any moment at most one opportunity of a given source transaction hash
\* is admitted or dispatched.
C1_AtMostOneInFlight ==
    \A h \in Hashes : Cardinality(OppsInFlight(h)) <= 1

\* C2: over a whole run executeSandwich is invoked at most once per victim
\* transaction hash.
C2_AtMostOneExecution ==
    \A h \in Hashes : executed[h] <= 1

\* C6: an entry whose age at the cycle's timestamp exceeds OPPORTUNITY_TIMEOUT
\* is gone from the map when the cycle is over, and executeSandwich is not
\* called for it in that cycle; in either processing loop.
C6_ExpiredPurgedInCycle ==
    /\ loopPc \in {"sleep", "sleepErr"} =>
          \A k \in 1..Len(pendingOpportunities) : ~Expired(cycleNow, pendingOpportunities[k])
    /\ loopPc = "exec" => ~Expired(cycleNow, cur)
    /\ procPc \in {"sleep", "sleepErr", "sleepGas"} =>
          \A k \in 1..Len(procPending) : ~Expired(procNow, procPending[k])
    /\ procPc = "exec" => ~Expired(procNow, procCur)

\* C7: executeSandwich is never invoked for an opportunity whose age at the
\* time of the invocation exceeds OPPORTUNITY_TIMEOUT.
C7_NoStaleDispatch ==
    loopPc = "exec" => invokedAt - cur.detected <= OPPORTUNITY_TIMEOUT

\* The largest capacity the model can tell from no capacity at all: one entry
\* fewer than the hashes the feed announces.
InFlightCapacity == Cardinality(Hashes) - 1

\* C8: in every reachable state the in-flight map holds at most a fixed
\* capacity of entries, whatever the admissions.
C8_BoundedInFlight ==
    Len(pendingOpportunities) <= InFlightCapacity

\* C9: an admission for a hash that already has an entry leaves that entry
\* (opportunity and detection timestamp) as it was; in either map.
C9_SecondAdmissionNoOp ==
    [][\A h \in Hashes :
          /\ (HasKey(pendingOpportunities, h) /\ HasKey(pendingOpportunities', h))
             => EntryOf(pendingOpportunities', h) = EntryOf(pendingOpportunities, h)
          /\ (HasKey(procPending, h) /\ HasKey(procPending', h))
             => EntryOf(procPending', h) = EntryOf(procPending, h)]_vars

\* the first entry of m that is live at time t
FirstLive(m, t) ==
    m[CHOOSE k \in 1..Len(m) :
         /\ ~Expired(t, m[k])
         /\ \A j \in 1..(k - 1) : Expired(t, m[j])]

\* C10: when the gas price fetched for an entry exceeds MAX_GAS_PRICE, the
\* loop's next step dispatches nothing and leaves the entry in the map as it
\* was; and a new cycle takes up the first live entry of the map again. In
\* OpportunityProcessor the price is fetched once for the cycle: too high, the
\* cycle dispatches nothing and leaves the whole map as it was, and the next
\* cycle with an acceptable price takes up the first live entry.
C10_GasSkipKeepsEntry ==
    /\ [][(loopPc = "gasResume" /\ currentGasPrice > MAX_GAS_PRICE /\ loopPc' # "gasResume")
          => /\ loopPc' # "exec"
             /\ executed' = executed
             /\ HasKey(pendingOpportunities, cur.txHash)
             /\ HasKey(pendingOpportunities', cur.txHash)
             /\ EntryOf(pendingOpportunities', cur.txHash)
                  = EntryOf(pendingOpportunities, cur.txHash)]_vars
    /\ [][(loopPc \in {"sleep", "sleepErr"} /\ loopPc' \notin {"sleep", "sleepErr"} /\ isActive
           /\ \E k \in 1..Len(pendingOpportunities) : ~Expired(now, pendingOpportunities[k]))
          => /\ loopPc' = "gas"
             /\ cur' = FirstLive(pendingOpportunities, now)]_vars
    /\ [][(procPc = "gasResume" /\ procGasPrice > MAX_GAS_PRICE /\ procPc' # "gasResume")
          => /\ procPc' = "sleepGas"
             /\ executed' = executed
             /\ procPending' = procPending]_vars
    /\ [][(procPc = "sleepGas" /\ procPc' # "sleepGas" /\ procActive)
          => /\ procPc' = "gas"
             /\ procPending' = procPending]_vars
    /\ [][(procPc = "gasResume" /\ procGasPrice <= MAX_GAS_PRICE /\ procPc' # "gasResume"
           /\ \E k \in 1..Len(procPending) : ~Expired(procNow, procPending[k]))
          => /\ procPc' = "calc"
             /\ procCur' = FirstLive(procPending, procNow)]_vars

\* a cycle is over and an entry admitted before it began is still in the map,
\* live: the cycle skipped it for the gas price
C10_Witness ==
    /\ loopPc = "sleep"
    /\ \E k \in 1..Len(pendingOpportunities) :
          /\ pendingOpportunities[k].detected < cycleNow
          /\ ~Expired(cycleNow, pendingOpportunities[k])

\* C11: executeSandwich is not invoked for an opportunity whose victim's
\* declared deadline has passed at the time of the invocation.
C11_NoDispatchPastDeadline ==
    loopPc = "exec" => invokedAt <= VictimDeadline(cur.txHash)

HasOpp(m, o) == \E k \in 1..Len(m) : m[k].opp = o

\* C13: the lifecycle runs detected, validated, sized, admitted, dispatched:
\* an opportunity whose sizing is still in progress is not yet in the in-flight
\* map, and the opportunity being dispatched was admitted to it.
C13_LifecycleOrder ==
    /\ \A hd \in handlers : ~HasOpp(pendingOpportunities, hd.id)
    /\ procPc = "calc" => ~HasOpp(procPending, procCur.opp)
    /\ loopPc = "exec" => HasKey(pendingOpportunities, cur.txHash)
    /\ procPc = "exec" => HasKey(procPending, procCur.txHash)

\* the time at which the sandwichParams of an entry were calculated:
\* handlePendingTransaction stores them with detected: Date.now() in the same
\* continuation, and nothing recalculates them
SizedAt(e) == e.detected

\* C14: the sizing a dispatch uses was calculated in the processing cycle that
\* dispatches, not at detection.
C14_DispatchUsesCurrentSizing ==
    loopPc = "exec" => SizedAt(cur) >= cycleNow

\* C15: a failure in the loop (the gas-price query rejects, or the bookkeeping
\* after an execution result throws) or in a notification handler stops
\* nothing: the loop goes to its one-second sleep and then runs the next
\* cycle, the entries it did not handle stay in the map, the websocket and the
\* other handlers are as before, and notifications are still taken.
C15_FailureKeepsPipelineRunning ==
    /\ [][(loopPc = "gas" /\ loopPc' \notin {"gas", "gasResume"})
          => /\ loopPc' = "sleepErr"
             /\ pendingOpportunities' = pendingOpportunities
             /\ <<isActive, wsOpen, handlers>>' = <<isActive, wsOpen, handlers>>]_vars
    /\ [][(loopPc = "exec" /\ loopPc' \notin {"exec", "gas", "sleep"})
          => /\ loopPc' = "sleepErr"
             /\ pendingOpportunities' = MapDelete(pendingOpportunities, cur.txHash)
             /\ <<isActive, wsOpen, handlers>>' = <<isActive, wsOpen, handlers>>]_vars
    /\ [][(loopPc = "sleepErr" /\ loopPc' # "sleepErr" /\ isActive)
          => loopPc' \in {"gas", "sleep"}]_vars
    /\ [][(handlers' # handlers /\ handlers' \subseteq handlers
           /\ pendingOpportunities' = pendingOpportunities)
          => /\ Cardinality(handlers') = Cardinality(handlers) - 1
             /\ <<isActive, wsOpen, loopPc>>' = <<isActive, wsOpen, loopPc>>]_vars
    /\ []((isActive /\ startPc = "started") => loopPc # "stopped")
    /\ [](loopPc = "sleepErr" => ENABLED LoopWake)
    /\ []((wsOpen /\ nextId <= MaxNotifications) => \A h \in Hashes : ENABLED Notify(h))

\* the cycle has failed after an execution, the loop is in its one-second
\* sleep with the observer active, an entry it did not reach still in the map
\* and a notification handler still at work
C15_Witness ==
    /\ loopPc = "sleepErr" /\ isActive /\ wsOpen
    /\ \E h \in Hashes : executed[h] > 0 /\ ~HasKey(pendingOpportunities, h)
    /\ pendingOpportunities # <<>>
    /\ handlers # {}

\* the last time the model's clock reaches
Horizon == MaxTicks * TickStep

\* every entry of the map expires before the clock's last tick
AllEarly ==
    \A k \in 1..Len(pendingOpportunities) :
        pendingOpportunities[k].detected + OPPORTUNITY_TIMEOUT < Horizon

\* the feed has delivered all the notifications of the run and every handler
\* has finished: no entry is added or overwritten from here on
AdmissionsOver == nextId > MaxLiveNotifications /\ handlers = {}

----------------------------------------------------------------------------
(* Claims about SandwichExecutor, checked under SpecExec and SpecSeq *)

\* C3: the nonces concurrent executeSandwich calls assign are base, base+1,
\* ..., in the order assigned: none repeated, none skipped.
C3_ConsecutiveNonces ==
    \A k \in 1..Len(assigned) : assigned[k] = assigned[1] + (k - 1)

\* C4: across dispatches made one after the other every nonce assigned is
\* greater than those assigned before it, so that no two attempts whose
\* transaction was submitted hold the same nonce.
C4_NoNonceReuse ==
    \A a, b \in CallIds :
        (a # b /\ calls[a].sent /\ calls[b].sent) => calls[a].nonce # calls[b].nonce

\* C5: when the nonce query has failed and no nonce is held, the call ends
\* with a failure result, assigns no nonce, submits nothing and leaves the
\* counter unset.
C5_FailsClosed ==
    /\ [][\A c \in CallIds :
            (/\ calls[c].pc = "countResume" /\ calls[c].rpc = "error"
             /\ currentNonce = Null
             /\ calls'[c] # calls[c])
            => /\ calls'[c].pc = "done"
               /\ calls'[c].result = "NoNonce"
               /\ calls'[c].nonce = Null
               /\ ~calls'[c].sent
               /\ currentNonce' = Null
               /\ assigned' = assigned
               /\ mempool' = mempool]_vars
    /\ [](\A c \in CallIds :
            calls[c].result = "NoNonce"
            => calls[c].pc = "done" /\ calls[c].nonce = Null /\ ~calls[c].sent)

\* the latest nonce handed out went to a submission that failed
LastAssignedFailed ==
    /\ Len(assigned) > 0
    /\ \E d \in CallIds :
          /\ calls[d].pc = "done" /\ calls[d].result = "SubmitError"
          /\ calls[d].nonce = assigned[Len(assigned)]

\* C17: the dispatch that follows a failed submission reads the nonce from the
\* chain before it assigns one, however recent the last refresh.
C17_RefreshAfterSubmitError ==
    [][\A c \in CallIds :
          (calls[c].pc = "idle" /\ calls'[c].pc # "idle" /\ LastAssignedFailed)
          => calls'[c].pc = "getCount"]_vars

Outcomes == {"Success", "Reverted", "Timeout"}

\* C12: a tracked transaction is resolved once, to one of Success (receipt
\* status 1), Reverted (another status) or Timeout (txTimeout has passed), no
\* later than txTimeout after tracking began; its pendingTxs entry goes at
\* that moment; a receipt or a timer after that changes nothing.
C12_ResolvedExactlyOnce ==
    /\ [][\A c \in CallIds : calls[c].resolved => calls'[c] = calls[c]]_vars
    /\ [][\A c \in CallIds :
            (~calls[c].resolved /\ calls'[c].resolved)
            => /\ calls[c].tracked /\ ~calls'[c].tracked
               /\ calls'[c].result \in Outcomes
               /\ calls'[c].result = "Timeout"
                    => (now - calls[c].startTime >= txTimeout /\ chainCount' = chainCount)
               /\ calls'[c].result # "Timeout" => chainCount' = chainCount + 1]_vars
    /\ [](\A c \in CallIds :
            /\ calls[c].tracked <=> (calls[c].sent /\ ~calls[c].resolved)
            /\ calls[c].resolved <=> calls[c].result \in Outcomes
            /\ calls[c].tracked => now - calls[c].startTime <= txTimeout)

\* a tracking has timed out and the receipt of its transaction came after
\* that: the call keeps the Timeout result
C12_Witness ==
    \E c \in CallIds :
        /\ calls[c].result = "Timeout" /\ ~calls[c].tracked
        /\ chainCount > calls[c].nonce
        /\ \A x \in mempool : x.nonce # calls[c].nonce
        /\ \A d \in CallIds \ {c} : calls[d].nonce # calls[c].nonce

----------------------------------------------------------------------------
(* Claims about TokenManager, checked under SpecCache and SpecBlacklist *)

\* C18: every profitability calculation uses reserves read from the chain no
\* more than 30 seconds before it, and a lookup never returns reserves older
\* than that.
C18_ReservesFreshAtCalculation ==
    /\ [][\A l \in LookupIds :
            lookups'[l].calcAt # lookups[l].calcAt
            => now - lookups[l].info <= pairCacheMaxAge]_vars
    /\ [][\A l \in LookupIds :
            (lookups[l].pc # "have" /\ lookups'[l].pc = "have" /\ lookups'[l].kind = "pair")
            => now - lookups'[l].info <= pairCacheMaxAge]_vars

\* C19: a cache entry is not overwritten while it is fresh.
C19_FreshEntryNotOverwritten ==
    [][/\ CacheHit(tokenCache, now, "token") => tokenCache' = tokenCache
       /\ CacheHit(pairCache, now, "pair") => pairCache' = pairCache]_vars

\* C20: when the fee/rebase heuristic fails with an error for a token that is
\* not on the static deny-list, isTokenBlacklisted returns true.
C20_HeuristicErrorFailsClosed ==
    \A k \in CheckIds :
        (checks[k].pc = "done" /\ checks[k].heuristicError
         /\ checks[k].token \notin StaticDenyList)
        => checks[k].result = TRUE

\* a call has failed for want of a nonce, and the counter is still unset
C5_Witness ==
    \E c \in CallIds :
        calls[c].pc = "done" /\ calls[c].result = "NoNonce" /\ currentNonce = Null

\* C21: the front-run amount calculateOptimalFrontRunAmount settles on, and
\* the amount it returns, is at least 0 and at most 0.3 times the victim's amount.
C21_FrontRunAmountClamped ==
    sizing.pc = "sized" =>
        /\ 0 <= sizing.result.capped
        /\ sizing.result.capped <= (sizing.v * 3) \div 10
        /\ ~sizing.result.threw =>
              /\ 0 <= sizing.result.optimalFrontRunAmount
              /\ sizing.result.optimalFrontRunAmount <= (sizing.v * 3) \div 10

\* a negative optimum was raised to 0 and returned
C21_Witness ==
    /\ sizing.pc = "sized"
    /\ sizing.result.unconstrained < 0
    /\ ~sizing.result.threw
    /\ sizing.result.optimalFrontRunAmount = 0

C23_LargeVictimClampedToCap ==
    (sizing.pc = "sized" /\ sizing.x = 100 * Scale /\ sizing.y = 100 * Scale
     /\ sizing.v = 50 * Scale) =>
        /\ ~sizing.result.threw
        /\ sizing.result.optimalFrontRunAmount = 15 * Scale
        /\ sizing.result.expectedProfit > 0

\* the attacker's profit of the three constant-product trades for a front-run of a
Profit(x, y, v, a) == Simulate(x, y, v, a, x + TimesFee(a)).profitDecimal

\* the step of the numerical test of a maximum: half a token
Epsilon == Scale \div 2

\* C24: the unclamped front-run amount is a local maximum of the attacker's
\* profit: the profit is lower a step below it and a step above it.
C24_OptimumIsLocalMaximum ==
    (sizing.pc = "sized" /\ sizing.result.unconstrained > Epsilon) =>
        LET a == sizing.result.unconstrained
        IN  /\ Profit(sizing.x, sizing.y, sizing.v, a - Epsilon)
                 < Profit(sizing.x, sizing.y, sizing.v, a)
            /\ Profit(sizing.x, sizing.y, sizing.v, a)
                 > Profit(sizing.x, sizing.y, sizing.v, a + Epsilon)

\* C25: in the optimizer's simulation and in the contract's, every hop's
\* output is reserveOut * in * g / (reserveIn + in * g) on the reserves the
\* hops before it left, no output is above the reserve it is taken from and
\* no reserve is negative.
C25_HopsFollowConstantProduct ==
    /\ sizing.pc = "sized" =>
          LET h == sizing.result.hops
          IN  /\ ~h.nan
              /\ h.frontRunOutput = HopOut(sizing.x, sizing.y, sizing.result.capped)
              /\ h.victimOutput = HopOut(h.newX1, h.newY1, sizing.v)
              /\ h.backRunOutput = HopOut(h.newY2, h.newX2, h.frontRunOutput)
              /\ h.frontRunOutput <= sizing.y
              /\ h.victimOutput <= h.newY1
              /\ h.backRunOutput <= h.newX2
              /\ h.newX1 >= 0 /\ h.newY1 >= 0 /\ h.newX2 >= 0 /\ h.newY2 >= 0
    /\ (sandwich.pc = "done" /\ ~sandwich.reverted) =>
          /\ sandwich.amountOut1
               = (sandwich.reserveB * sandwich.frontRunAmount * FEE)
                 \div (sandwich.reserveA * FEE_DIVISOR + sandwich.frontRunAmount * FEE)
          /\ sandwich.victimOut
               = (sandwich.newReserveB1 * sandwich.victimAmount * FEE)
                 \div (sandwich.newReserveA1 * FEE_DIVISOR + sandwich.victimAmount * FEE)
          /\ sandwich.amountOut3
               = (sandwich.newReserveA2 * sandwich.actualBackRunAmount * FEE)
                 \div (sandwich.newReserveB2 * FEE_DIVISOR + sandwich.actualBackRunAmount * FEE)
          /\ sandwich.amountOut1 <= sandwich.reserveB
          /\ sandwich.victimOut <= sandwich.newReserveB1
          /\ sandwich.amountOut3 <= sandwich.newReserveA2
          /\ sandwich.newReserveB1 >= 0 /\ sandwich.newReserveB2 >= 0

\* the costs the claim names, in units of 0.0001 ether: the flash-loan fee
\* loanAmount * 9 / 10000 and the gas cost 600000 * network gas price
ClaimedNet(ad) ==
    ad.grossProfit * UnitsPerHundredth
    - (((((ad.v * ad.share) \div 10) * 12) \div 10) * UnitsPerHundredth * 9) \div 10000
    - (600000 * ad.networkGas) \div GasPerUnit

\* C26: an opportunity is admitted only if its sizing returned and the gross
\* profit less the flash-loan fee and the gas cost was above
\* MIN_PROFIT_THRESHOLD; a sizing that fails with an error reports
\* profitable = false and nothing is admitted.
C26_AdmittedOnlyIfProfitable ==
    /\ admission.admitted =>
          /\ ~admission.params.threw
          /\ ClaimedNet(admission) > MIN_PROFIT_THRESHOLD
    /\ (admission.pc \in {"sized", "done"} /\ admission.dropped \in {"no", "unprofitable"}
        /\ (admission.simulationThrows \/ admission.bufferRejected)) =>
          /\ admission.params.profitable = FALSE
          /\ ~admission.admitted

\* an opportunity was admitted, its net profit above the threshold
C26_Witness ==
    /\ admission.admitted
    /\ admission.params.netProfit > MIN_PROFIT_THRESHOLD

C28_LowConfidenceNeverAdmitted ==
    admission.admitted =>
        /\ admission.params.confidence >= MIN_CONFIDENCE
        /\ Confidence((admission.v * admission.share) \div 10, admission.x) >= MIN_CONFIDENCE

\* an opportunity whose sizing has a confidence below 0.7 was handled and dropped
C28_Witness ==
    /\ admission.pc = "done"
    /\ admission.dropped = "confidence"
    /\ admission.gatesPass
    /\ Confidence((admission.v * admission.share) \div 10, admission.x) < MIN_CONFIDENCE

\* a call made during the analysis failed
AnalysisCallFailed(tx) ==
    \/ tx.blacklistedA = "throws"
    \/ tx.blacklistedA = "no" /\ tx.blacklistedB = "throws"
    \/ tx.blacklistedA = "no" /\ tx.blacklistedB = "no" /\ tx.liquidity = "throws"

\* C29: analyzePendingTransaction returns null or an opportunity for every
\* transaction, whatever its call data and whichever call fails: it never throws.
C29_AnalysisNeverThrows ==
    analysis.pc = "done" => analysis.result \in {"null", "opportunity"}

\* a swap on a router was analysed, a registry call failed and null was returned
C29_Witness ==
    /\ analysis.pc = "done"
    /\ analysis.to = "router" /\ analysis.data = "swap" /\ analysis.pathLength >= 2
    /\ AnalysisCallFailed(analysis)
    /\ analysis.result = "null"

\* C30: an opportunity is returned only for a transaction to a router with a
\* path of at least two tokens, neither endpoint blacklisted, a pair that is
\* liquid and not too deep and an input worth at least MIN_VICTIM_SIZE; a
\* transaction to another address is rejected with nothing decoded and no
\* registry call made.
C30_OpportunityPassedEveryGate ==
    /\ analysis.result = "opportunity" =>
          /\ analysis.to = "router"
          /\ analysis.pathLength >= 2
          /\ analysis.blacklistedA = "no" /\ analysis.blacklistedB = "no"
          /\ analysis.liquidity = "ok"
          /\ analysis.value = "atLeast"
    /\ (analysis.pc = "done" /\ analysis.to # "router") =>
          /\ analysis.result = "null"
          /\ ~analysis.decoded
          /\ analysis.registryCalls = 0

\* an opportunity was returned
C30_Witness ==
    /\ analysis.pc = "done"
    /\ analysis.result = "opportunity"
    /\ analysis.registryCalls > 0

\* C40: for every opportunity the classifier returns, the pair whose pool is
\* snapshotted and used for sizing is the pair that passed the blacklist and
\* liquidity gates.
C40_SizedPoolIsGatedPool ==
    (analysis.pc = "done" /\ analysis.result = "opportunity") =>
        analysis.sized = analysis.gated

----------------------------------------------------------------------------
(* The classifier called twice, checked under SpecTwice *)

\* C31: classifying the same payload twice gives the same result both times,
\* two identical opportunities or two nulls, whatever the time of the calls
\* and whatever the registry has learned in between.
C31_SameIntentTwice ==
    twice.pc = "done" => twice.first = twice.second


----------------------------------------------------------------------------
(* The sizing of an accepted opportunity, checked under SpecOptimizer *)

\* the test of part_003:96 lets the swap of the sizing through
AcceptedByDecoder(sz) ==
    ~DecoderRejects(DecoderProfit(sz.v), DecoderConfidence(sz.v, sz.x))

\* C32: for a victim swap that analyzePendingTransaction accepts,
\* calculateOptimalSandwichParams returns profitable = true with front-run,
\* back-run and flash-loan amounts that can be executed (positive amounts).
C32_AcceptedSwapSizedProfitable ==
    (sizing.pc = "sized" /\ AcceptedByDecoder(sizing)) =>
        /\ ~sizing.params.threw
        /\ sizing.params.profitable
        /\ sizing.params.frontRunAmount > 0
        /\ sizing.params.flashLoanAmount > 0
        /\ sizing.result.optimalBackRunAmount > 0

\* the estimated gas units plus 20%
BufferedGas == ESTIMATED_GAS + (ESTIMATED_GAS * 2) \div 10

\* C37: when the front-run sizing went through, calculateOptimalSandwichParams
\* returns gasLimit = 720000 (600000 plus the 20% buffer), and the gas limit's
\* computation does not send the call to its catch.
C37_GasLimitBuffered ==
    (sizing.pc = "sized" /\ ~sizing.result.threw) =>
        /\ ~sizing.params.threw
        /\ sizing.params.gasLimit = BufferedGas

----------------------------------------------------------------------------
(* The restarted observer, checked under SpecLife *)

\* a step that calls executor.executeSandwich
Dispatches == \E h \in Hashes : executed'[h] > executed[h]

\* the longest run of failures after which one loop still has an admitted
\* opportunity to dispatch in the runs of the model
BreakerLimit == MaxLiveNotifications - 1

\* C33: after a run of consecutive failed executions the bot stops
\* dispatching: once BreakerLimit executions in a row have failed, no step
\* calls executeSandwich (a breaker with any smaller limit implies this one).
C33_BreakerStopsDispatch ==
    [][Dispatches => failedRun < BreakerLimit]_vars

\* the processOpportunities invocations that have not returned
Running == {i \in LoopIds : loops[i].pc \notin {"verify", "stopped"}}

\* C38: after any sequence of start() and stop() calls at most one
\* processOpportunities loop is running, and no opportunity is in the hands
\* of two loops at once.
C38_AtMostOneLoop ==
    /\ Cardinality(Running) <= 1
    /\ \A i, j \in LoopIds :
          (i # j /\ loops[i].pc \in {"gas", "gasResume", "exec"}
                 /\ loops[j].pc \in {"gas", "gasResume", "exec"}) =>
              loops[i].cur.txHash # loops[j].cur.txHash

\* C39: once stop() has set isActive to false no executeSandwich call is
\* started, and a reconnect whose sleep ends opens no subscription.
C39_StoppedMeansQuiet ==
    [][~isActive =>
          /\ ~Dispatches
          /\ (reconnect'.waiting < reconnect.waiting => ~wsOpen')]_vars

----------------------------------------------------------------------------
(* FlashLoanSandwich, checked under SpecContract *)

SandwichEntryPoints == {"executeSandwich", "executeSandwichWithETH"}

\* C34: executeSandwich and executeSandwichWithETH revert, leaving the
\* contract's state unchanged, whenever emergencyStop is set, tx.gasprice is
\* above maxGasPrice, or block.timestamp is past the deadline.
C34_GuardsRevert ==
    (/\ lastCall.fn \in SandwichEntryPoints
     /\ \/ lastCall.before.emergencyStop
        \/ lastCall.gasPrice > lastCall.before.maxGasPrice
        \/ lastCall.late) =>
        /\ lastCall.reverted
        /\ contract = lastCall.before

\* the owner called an entry point with the emergency stop set and every
\* other condition met, and it reverted
C34_Witness ==
    /\ lastCall.fn \in SandwichEntryPoints
    /\ lastCall.sender = contract.owner
    /\ lastCall.before.emergencyStop
    /\ lastCall.gasPrice <= lastCall.before.maxGasPrice
    /\ ~lastCall.late
    /\ lastCall.reverted

OwnerFunctions == {"updateParameters", "toggleEmergencyStop", "emergencyWithdraw"}

\* the next transaction has been mined
NextMined == lastCall'.n = lastCall.n + 1

\* C35: minProfitThreshold, maxGasPrice and emergencyStop change only through
\* updateParameters and toggleEmergencyStop called by the owner; the three
\* owner functions revert for any other caller without changing state; the
\* owner never changes; two successive toggleEmergencyStop calls restore the
\* emergencyStop value.
C35_OwnerOnly ==
    [][/\ (\/ contract'.minProfitThreshold # contract.minProfitThreshold
           \/ contract'.maxGasPrice # contract.maxGasPrice
           \/ contract'.emergencyStop # contract.emergencyStop) =>
              /\ lastCall'.sender = contract.owner
              /\ lastCall'.fn \in {"updateParameters", "toggleEmergencyStop"}
       /\ (NextMined /\ lastCall'.fn \in OwnerFunctions
           /\ lastCall'.sender # contract.owner) =>
              /\ lastCall'.reverted
              /\ contract' = contract
       /\ contract'.owner = contract.owner
       /\ (/\ NextMined
           /\ lastCall.fn = "toggleEmergencyStop" /\ ~lastCall.reverted
           /\ lastCall'.fn = "toggleEmergencyStop" /\ ~lastCall'.reverted) =>
              contract'.emergencyStop = lastCall.before.emergencyStop]_vars

\* the owner toggled the emergency stop twice in a row
C35_Witness ==
    /\ lastCall.fn = "toggleEmergencyStop"
    /\ ~lastCall.reverted
    /\ lastCall.n >= 2
    /\ lastCall.before.emergencyStop
    /\ ~contract.emergencyStop

\* what the transaction left the owner and the contract with, in ETH and in
\* the asset, beyond what they had and sent
Realised ==
    (contract.assetBalance + contract.ethBalance + lastCall.paidToOwner)
    - (lastCall.before.assetBalance + lastCall.before.ethBalance + lastCall.value)

\* C36: a sandwich execution that does not revert realised a profit of at
\* least minProfitThreshold and, on the flash-loan path, left a balance
\* covering loan and premium; SandwichExecuted is emitted in that case only;
\* executeOperation reverts for any caller but the lending pool acting for
\* the contract itself.
C36_ExecutionMeansProfit ==
    /\ (lastCall.fn \in SandwichEntryPoints /\ ~lastCall.reverted) =>
          /\ lastCall.profit >= lastCall.before.minProfitThreshold
          /\ Realised >= lastCall.before.minProfitThreshold
          /\ lastCall.fn = "executeSandwich" =>
                (lastCall.owing > 0 /\ lastCall.finalBalance >= lastCall.owing)
    /\ lastCall.fn # "deploy" =>
          contract.sandwichExecuted
            = lastCall.before.sandwichExecuted
              + (IF lastCall.fn \in SandwichEntryPoints /\ ~lastCall.reverted THEN 1 ELSE 0)
    /\ lastCall.fn = "executeOperation" =>
          (lastCall.reverted /\ contract = lastCall.before)

\* a flash-loan sandwich went through with a profit at the threshold or above it
C36_Witness ==
    /\ lastCall.fn = "executeSandwich"
    /\ ~lastCall.reverted
    /\ lastCall.profit >= lastCall.before.minProfitThreshold
    /\ contract.sandwichExecuted = lastCall.before.sandwichExecuted + 1

====
